---- MODULE Spec2Model ----
(***************************************************************************)
(* A model of ai-generators/build_public_pages.py: the record normalizers  *)
(* (_first_nonempty, _alias_get, _format_address, _extract_hours,          *)
(* _map_embed_src, _guess_title), the contact-page scan with its dedup     *)
(* set, the organization merge and the site-name fallback, the services,   *)
(* testimonials, FAQ, help and index pages, and the entry point.           *)
(*                                                                         *)
(* Python values are tagged records:                                       *)
(*   None            [t |-> "none"]                                        *)
(*   str             [t |-> "str",   s  |-> <<"a", "b">>]  (one char each)  *)
(*   int             [t |-> "int",   n  |-> 7]                             *)
(*   float           [t |-> "float", n  |-> 7]   (the float 7.0)           *)
(*   bool            [t |-> "bool",  b  |-> TRUE]                          *)
(*   list            [t |-> "list",  xs |-> <<v1, v2>>]                    *)
(*   dict            [t |-> "dict",  d  |-> [key |-> v]]                   *)
(* A str is a sequence of one-character strings, so that strip(), lower(), *)
(* title(), split() and the regular expressions are computed, not assumed. *)
(***************************************************************************)
EXTENDS Integers, Sequences, FiniteSets, TLC

VARIABLES
  call,     \* the pending call of a normalizer: [fn |-> name, ...arguments]
  ret,      \* its return value, or Pending before the call has run
  fs,       \* the schemas/ tree and the environment the page generators read
  contact,  \* the locals of generate_contact_page
  about,    \* the locals of generate_about_page
  pages,    \* the HTML files written so far: file name -> what was rendered
  main      \* the locals of the entry point (__main__)

vars == <<call, ret, fs, contact, about, pages, main>>

\* the variables a single normalizer call never touches
generators == <<fs, contact, about, pages, main>>

\* ------------------------------------------------------------ values

PyNone == [t |-> "none"]
PyStr(s) == [t |-> "str", s |-> s]
PyInt(n) == [t |-> "int", n |-> n]
PyFloat(n) == [t |-> "float", n |-> n]
PyBool(b) == [t |-> "bool", b |-> b]
PyList(xs) == [t |-> "list", xs |-> xs]
PyDict(f) == [t |-> "dict", d |-> f]

EmptyDict == [k \in {} |-> PyNone]

Pending == [t |-> "pending"]

\* a generator that is not running, and a tree that is not read
Idle == [pc |-> "idle"]
NoFiles == [present |-> FALSE]
NoPages == [f \in {} |-> PyNone]
GeneratorsIdle == fs = NoFiles /\ contact = Idle /\ about = Idle /\ pages = NoPages /\ main = Idle

IsStr(v) == v.t = "str"
\* isinstance(v, (int, float)): bool is a subclass of int
IsNum(v) == v.t \in {"int", "float", "bool"}
IsDict(v) == v.t = "dict"
IsList(v) == v.t = "list"

\* bool(v)
Truthy(v) ==
  CASE v.t = "none" -> FALSE
    [] v.t = "str" -> v.s # <<>>
    [] v.t \in {"int", "float"} -> v.n # 0
    [] v.t = "bool" -> v.b
    [] v.t = "list" -> v.xs # <<>>
    [] v.t = "dict" -> DOMAIN v.d # {}

\* v == 0  (0 == 0.0 == False in Python)
EqZero(v) ==
  CASE v.t \in {"int", "float"} -> v.n = 0
    [] v.t = "bool" -> ~v.b
    [] OTHER -> FALSE

\* d.get(k)
Get(d, k) == IF k \in DOMAIN d THEN d[k] ELSE PyNone

\* a or b
Or(a, b) == IF Truthy(a) THEN a ELSE b

\* ------------------------------------------------------------ strings

Whitespace == {" ", "\t", "\n"}

RECURSIVE LStrip(_)
LStrip(s) ==
  IF s # <<>> /\ Head(s) \in Whitespace THEN LStrip(Tail(s)) ELSE s

RECURSIVE RStrip(_)
RStrip(s) ==
  IF s # <<>> /\ s[Len(s)] \in Whitespace
    THEN RStrip(SubSeq(s, 1, Len(s) - 1))
    ELSE s

\* str.strip()
Strip(s) == RStrip(LStrip(s))

UpperLetters ==
  <<"A", "B", "C", "D", "E", "F", "G", "H", "I", "J", "K", "L", "M",
    "N", "O", "P", "Q", "R", "S", "T", "U", "V", "W", "X", "Y", "Z">>
LowerLetters ==
  <<"a", "b", "c", "d", "e", "f", "g", "h", "i", "j", "k", "l", "m",
    "n", "o", "p", "q", "r", "s", "t", "u", "v", "w", "x", "y", "z">>
Digits == <<"0", "1", "2", "3", "4", "5", "6", "7", "8", "9">>

Range(f) == {f[i] : i \in DOMAIN f}
IndexOf(seq, c) == CHOOSE i \in DOMAIN seq : seq[i] = c

IsUpper(c) == c \in Range(UpperLetters)
IsLower(c) == c \in Range(LowerLetters)
IsLetter(c) == IsUpper(c) \/ IsLower(c)
IsDigit(c) == c \in Range(Digits)

LowerChar(c) == IF IsUpper(c) THEN LowerLetters[IndexOf(UpperLetters, c)] ELSE c
UpperChar(c) == IF IsLower(c) THEN UpperLetters[IndexOf(LowerLetters, c)] ELSE c

\* str.lower()
Lower(s) == [i \in DOMAIN s |-> LowerChar(s[i])]

\* str.title(): a letter is upper-cased when it follows a non-letter (or
\* starts the string) and lower-cased when it follows a letter
Title(s) ==
  [i \in DOMAIN s |->
     IF i = 1 \/ ~IsLetter(s[i - 1]) THEN UpperChar(s[i]) ELSE LowerChar(s[i])]

\* str.replace(old, new) for a one-character old
ReplaceChar(s, old, new) == [i \in DOMAIN s |-> IF s[i] = old THEN new ELSE s[i]]

RECURSIVE Concat(_)
Concat(ss) == IF ss = <<>> THEN <<>> ELSE Head(ss) \o Concat(Tail(ss))

\* sep.join(parts)
RECURSIVE Join(_, _)
Join(sep, parts) ==
  IF parts = <<>> THEN <<>>
  ELSE IF Len(parts) = 1 THEN parts[1]
  ELSE parts[1] \o sep \o Join(sep, Tail(parts))

\* the non-negative integer n in decimal
RECURSIVE NatStr(_)
NatStr(n) ==
  IF n < 10 THEN <<Digits[n + 1]>> ELSE NatStr(n \div 10) \o <<Digits[(n % 10) + 1]>>

IntStr(n) == IF n < 0 THEN <<"-">> \o NatStr(-n) ELSE NatStr(n)

\* str(v) of a number: str(7) = "7", str(7.0) = "7.0", str(True) = "True"
NumStr(v) ==
  CASE v.t = "int" -> IntStr(v.n)
    [] v.t = "float" -> IntStr(v.n) \o <<".", "0">>
    [] v.t = "bool" -> IF v.b THEN <<"T", "r", "u", "e">> ELSE <<"F", "a", "l", "s", "e">>

\* ------------------------------------------------------------ utilities

\* _first_nonempty(*vals): returns a str, "" when nothing qualifies
RECURSIVE _first_nonempty(_)
_first_nonempty(vals) ==
  IF vals = <<>> THEN <<>>
  ELSE LET v == Head(vals) IN
    IF IsStr(v) /\ Strip(v.s) # <<>> THEN Strip(v.s)
    ELSE IF IsNum(v) THEN NumStr(v)
    ELSE IF IsDict(v) /\ "@value" \in DOMAIN v.d /\ IsStr(v.d["@value"])
            /\ Strip(v.d["@value"].s) # <<>>
      THEN Strip(v.d["@value"].s)
    ELSE _first_nonempty(Tail(vals))

\* ------------------------------------------------------------ aliases

FIELD_ALIASES ==
  [entity_name |-> <<"entity_name", "organization", "org_name", "company", "name">>,
   contact_person |-> <<"contact_person", "contact", "contact_name", "primary_contact", "attention">>,
   email |-> <<"email", "contact_email", "email_address", "mail">>,
   phone |-> <<"phone", "telephone", "tel", "phone_number", "contact_number">>,
   address_street |-> <<"address_street", "streetAddress", "street", "address1", "address_line_1", "address_line">>,
   address_city |-> <<"address_city", "city", "addressLocality">>,
   address_state |-> <<"address_state", "state", "addressRegion", "province">>,
   address_postal_code |-> <<"address_postal_code", "postalCode", "zip", "zipCode", "postcode">>,
   hours |-> <<"hours", "openingHours", "opening_hours", "business_hours">>,
   map_embed_url |-> <<"map_embed_url", "map", "map_iframe">>,
   google_maps_url |-> <<"google_maps_url", "maps_url", "map_url">>,
   latitude |-> <<"geo_latitude", "latitude", "lat">>,
   longitude |-> <<"geo_longitude", "longitude", "lng", "lon">>,
   website |-> <<"website", "url", "homepage">>,
   sameAs |-> <<"sameAs", "same_as", "social", "social_links">>]

\* FIELD_ALIASES.get(canon_key, [])
AliasesOf(canon_key) ==
  IF canon_key \in DOMAIN FIELD_ALIASES THEN FIELD_ALIASES[canon_key] ELSE <<>>

\* a membership test alone: `k in d`, the emptiness test forgotten
HasPresent_key_only(d, k) == k \in DOMAIN d

\* plain truthiness: `k in d and d[k]`, the `== 0` clause forgotten
HasPresent_truthy(d, k) == k \in DOMAIN d /\ Truthy(d[k])

\* `k in d and (d[k] or d[k] == 0)`
HasPresent(d, k) == k \in DOMAIN d /\ (Truthy(d[k]) \/ EqZero(d[k]))

\* the first alias key, from position i on, that d holds with a present value; 0 if none
RECURSIVE FirstAliasHit(_, _, _)
FirstAliasHit(d, keys, i) ==
  IF i > Len(keys) THEN 0
  ELSE IF HasPresent(d, keys[i]) THEN i
  ELSE FirstAliasHit(d, keys, i + 1)

\* the nested lookups returning the sub-object instead of its field
AliasNested_whole_object(d, canon_key) ==
  LET geo == Or(Get(d, "geo"), PyDict(EmptyDict))
      cp == Or(Get(d, "contactPoint"), Get(d, "contact_point"))
  IN IF canon_key \in {"latitude", "longitude"} /\ IsDict(geo) THEN geo
     ELSE IF canon_key \in {"phone", "email"} /\ IsDict(cp) THEN cp
     ELSE PyNone

\* the tail of _alias_get: the nested geo / contactPoint lookups
AliasNested(d, canon_key) ==
  LET geo == Or(Get(d, "geo"), PyDict(EmptyDict))
      cp == Or(Get(d, "contactPoint"), Get(d, "contact_point"))
  IN IF canon_key \in {"latitude", "longitude"} /\ IsDict(geo)
       THEN Get(geo.d, canon_key)
     ELSE IF canon_key \in {"phone", "email"} /\ IsDict(cp)
       THEN IF canon_key = "phone"
              THEN PyStr(_first_nonempty(<<Get(cp.d, "telephone"), Get(cp.d, "phone")>>))
              ELSE PyStr(_first_nonempty(<<Get(cp.d, "email")>>))
     ELSE PyNone

\* _alias_get trying the alias list before the canonical key
_alias_get_aliases_first(dv, canon_key) ==
  IF ~IsDict(dv) THEN PyNone
  ELSE LET d == dv.d
           keys == AliasesOf(canon_key)
           hit == FirstAliasHit(d, keys, 1)
       IN IF hit # 0 THEN d[keys[hit]]
          ELSE IF HasPresent(d, canon_key) THEN d[canon_key]
          ELSE AliasNested(d, canon_key)

\* _alias_get(d, canon_key); dv is the Python value passed as d
_alias_get(dv, canon_key) ==
  IF ~IsDict(dv) THEN PyNone
  ELSE LET d == dv.d
           keys == AliasesOf(canon_key)
           hit == FirstAliasHit(d, keys, 1)
       IN IF HasPresent(d, canon_key) THEN d[canon_key]
          ELSE IF hit # 0 THEN d[keys[hit]]
          ELSE AliasNested(d, canon_key)

\* ------------------------------------------------------------ address

\* [p for p in parts if p]
NonEmptyParts(parts) == SelectSeq(parts, LAMBDA p : p # <<>>)

\* the composition without the filters: absent parts are joined too
ComposeAddressLine_keep_blanks(line1, line2, city, state, zipc) ==
  Strip(Join(<<" ">>, <<line1, line2, Join(<<",", " ">>, <<city, state>>), zipc>>))

\* the last two lines of both composers: the city/state pair joined by ", ",
\* then every present part joined by " " and stripped
ComposeAddressLine(line1, line2, city, state, zipc) ==
  LET citystate == IF city # <<>> \/ state # <<>>
                     THEN Join(<<",", " ">>, NonEmptyParts(<<city, state>>))
                     ELSE <<>>
  IN Strip(Join(<<" ">>, NonEmptyParts(<<line1, line2, citystate, zipc>>)))

\* _format_address_from_components(loc)
_format_address_from_components(loc) ==
  LET line1 == _first_nonempty(<<_alias_get(PyDict(loc), "address_street")>>)
      line2 == _first_nonempty(<<Get(loc, "address2"), Get(loc, "address_line_2"), Get(loc, "suite")>>)
      city == _first_nonempty(<<_alias_get(PyDict(loc), "address_city")>>)
      state == _first_nonempty(<<_alias_get(PyDict(loc), "address_state")>>)
      zipc == _first_nonempty(<<_alias_get(PyDict(loc), "address_postal_code")>>)
  IN ComposeAddressLine(line1, line2, city, state, zipc)

\* the isinstance(addr, dict) branch of _format_address
FormatAddressFromObject(a) ==
  LET line1 == _first_nonempty(<<Get(a, "streetAddress"), Get(a, "address1"), Get(a, "addressLine1")>>)
      line2 == _first_nonempty(<<Get(a, "address2"), Get(a, "addressLine2"), Get(a, "suite")>>)
      city == _first_nonempty(<<Get(a, "addressLocality"), Get(a, "city")>>)
      state == _first_nonempty(<<Get(a, "addressRegion"), Get(a, "state")>>)
      zipc == _first_nonempty(<<Get(a, "postalCode"), Get(a, "zip"), Get(a, "zipCode")>>)
  IN ComposeAddressLine(line1, line2, city, state, zipc)

\* _format_address composing from the record's loose fields whenever they
\* yield something, and using the flat string only otherwise
_format_address_components_first(addr, loc) ==
  IF _format_address_from_components(loc) # <<>> THEN _format_address_from_components(loc)
  ELSE IF IsStr(addr) THEN Strip(addr.s)
  ELSE IF IsDict(addr) THEN FormatAddressFromObject(addr.d)
  ELSE <<>>

\* _format_address preferring the record's loose fields to a nested object
_format_address_loose_over_object(addr, loc) ==
  IF IsStr(addr) /\ Strip(addr.s) # <<>> THEN Strip(addr.s)
  ELSE IF _format_address_from_components(loc) # <<>> THEN _format_address_from_components(loc)
  ELSE IF IsDict(addr) THEN FormatAddressFromObject(addr.d)
  ELSE <<>>

\* _format_address(addr, loc): returns a str
_format_address(addr, loc) ==
  IF IsStr(addr) /\ Strip(addr.s) # <<>> THEN Strip(addr.s)
  ELSE IF IsDict(addr) THEN FormatAddressFromObject(addr.d)
  ELSE _format_address_from_components(loc)

\* ------------------------------------------------------------ hours

\* the characters U+2014 (em dash) and U+2013 (en dash), one character each
EmDash == "U+2014"
EnDash == "U+2013"

\* day.rsplit("/", 1)[-1]: what follows the last slash
RECURSIVE AfterLastSlash(_)
AfterLastSlash(s) ==
  IF \E i \in DOMAIN s : s[i] = "/" THEN AfterLastSlash(Tail(s)) ELSE s

\* the row one entry r of the specification list contributes: <<row>> or <<>>
HoursRow(r) ==
  LET first == _first_nonempty(<<Get(r, "dayOfWeek"), Get(r, "day"), Get(r, "weekday")>>)
      \* first is a str, so `isinstance(day, list)` never holds and day[0] is never taken
      day == IF \E i \in DOMAIN first : first[i] = "/" THEN AfterLastSlash(first) ELSE first
      opens == _first_nonempty(<<Get(r, "opens"), Get(r, "openingTime")>>)
      closes == _first_nonempty(<<Get(r, "closes"), Get(r, "closingTime")>>)
  IN IF day # <<>> /\ (opens # <<>> \/ closes # <<>>)
       THEN <<day \o <<":", " ">> \o (IF opens # <<>> THEN opens ELSE <<EmDash>>)
                \o <<" ", EnDash, " ">> \o (IF closes # <<>> THEN closes ELSE <<EmDash>>)>>
       ELSE <<>>

\* the loop over the specification list: entries that are not dicts are skipped
RECURSIVE HoursRows(_)
HoursRows(xs) ==
  IF xs = <<>> THEN <<>>
  ELSE (IF IsDict(Head(xs)) THEN HoursRow(Head(xs).d) ELSE <<>>) \o HoursRows(Tail(xs))

\* _extract_hours(loc): returns a str
_extract_hours(loc) ==
  LET hours == _first_nonempty(<<_alias_get(PyDict(loc), "hours")>>)
      spec == Or(Get(loc, "openingHoursSpecification"), Get(loc, "opening_hours_specification"))
  IN IF hours # <<>> THEN hours
     ELSE IF IsList(spec) /\ spec.xs # <<>> /\ HoursRows(spec.xs) # <<>>
       THEN Join(<<";", " ">>, HoursRows(spec.xs))
     ELSE <<>>

\* ------------------------------------------------------------ titles

\* str(x) of a list element: a str as it is, a number by str(), None as "None"
StrOfValue(v) ==
  CASE v.t = "str" -> v.s
    [] IsNum(v) -> NumStr(v)
    [] v.t = "none" -> <<"N", "o", "n", "e">>

\* s.split(","): the pieces between commas, empty pieces included
RECURSIVE SplitComma(_)
SplitComma(s) ==
  IF \A i \in DOMAIN s : s[i] # "," THEN <<s>>
  ELSE LET c == CHOOSE i \in DOMAIN s : s[i] = "," /\ \A j \in 1..(i - 1) : s[j] # ","
       IN <<SubSeq(s, 1, c - 1)>> \o SplitComma(SubSeq(s, c + 1, Len(s)))

\* [x.strip() for x in pieces if x.strip()]
RECURSIVE StrippedNonEmpty(_)
StrippedNonEmpty(pieces) ==
  IF pieces = <<>> THEN <<>>
  ELSE (IF Strip(Head(pieces)) # <<>> THEN <<Strip(Head(pieces))>> ELSE <<>>)
       \o StrippedNonEmpty(Tail(pieces))

\* _as_list(val): a list of str
_as_list(val) ==
  IF val.t = "none" THEN <<>>
  ELSE IF IsList(val) THEN StrippedNonEmpty([i \in DOMAIN val.xs |-> StrOfValue(val.xs[i])])
  ELSE IF IsStr(val) /\ Strip(val.s) # <<>> THEN StrippedNonEmpty(SplitComma(val.s))
  ELSE <<>>

\* os.path.basename(path): what follows the last slash
Basename(path) == AfterLastSlash(path)

\* os.path.splitext(base)[0]: base without its extension; the extension starts
\* at the last dot, unless only dots precede that dot
SplitextRoot(base) ==
  IF \E i \in DOMAIN base : base[i] = "."
    THEN LET dot == CHOOSE i \in DOMAIN base :
                      base[i] = "." /\ \A j \in DOMAIN base : j > i => base[j] # "."
         IN IF \E j \in 1..(dot - 1) : base[j] # "." THEN SubSeq(base, 1, dot - 1) ELSE base
    ELSE base

\* _title_from_filename(path)
_title_from_filename(path) ==
  Title(Strip(ReplaceChar(ReplaceChar(SplitextRoot(Basename(path)), "-", " "), "_", " ")))

\* the words of the placeholder test (lines 75-76) and the last-resort title (line 539)
SERVICE == <<"s", "e", "r", "v", "i", "c", "e">>
UNNAMED_SERVICE == <<"u", "n", "n", "a", "m", "e", "d", " ", "s", "e", "r", "v", "i", "c", "e">>
UNTITLED == <<"u", "n", "t", "i", "t", "l", "e", "d">>
N_A == <<"n", "/", "a">>
NA == <<"n", "a">>
TBD == <<"t", "b", "d">>
ITEM == <<"i", "t", "e", "m">>
ENTRY == <<"e", "n", "t", "r", "y">>
SERVICE_DEFAULT == <<"S", "e", "r", "v", "i", "c", "e">>

PlaceholderWords ==
  {SERVICE, UNNAMED_SERVICE, UNTITLED, N_A, NA, TBD}

\* re.fullmatch(r"\s*\d+", s): whitespace, then one digit or more, to the end
RECURSIVE MatchesSpacesDigits(_)
MatchesSpacesDigits(s) ==
  IF s = <<>> THEN FALSE
  ELSE IF Head(s) \in Whitespace THEN MatchesSpacesDigits(Tail(s))
  ELSE \A i \in DOMAIN s : IsDigit(s[i])

\* s starts with the word w
StartsWith(s, w) == Len(s) >= Len(w) /\ SubSeq(s, 1, Len(w)) = w

\* re.fullmatch(r"(service|item|entry)\s*\d+", t)
MatchesNumberedPlaceholder(t) ==
  \E w \in {SERVICE, ITEM, ENTRY} :
    StartsWith(t, w) /\ MatchesSpacesDigits(SubSeq(t, Len(w) + 1, Len(t)))

\* _is_placeholder_title(text), text a Python value
_is_placeholder_title(text) ==
  IF ~IsStr(text) \/ Strip(text.s) = <<>> THEN TRUE
  ELSE LET t == Lower(Strip(text.s))
       IN t \in PlaceholderWords \/ MatchesNumberedPlaceholder(t)

\* kws[:2]
FirstTwo(xs) == SubSeq(xs, 1, IF Len(xs) < 2 THEN Len(xs) ELSE 2)

\* the title without the last resort of line 539
_guess_title_no_default(obj, filename) ==
  LET first == _first_nonempty(<<Get(obj, "title"), Get(obj, "service_name"), Get(obj, "name"),
                                 Get(obj, "headline"), Get(obj, "service"), Get(obj, "offering"),
                                 Get(obj, "product_name"), Get(obj, "category"),
                                 Get(obj, "subtype"), Get(obj, "type"), Get(obj, "label")>>)
      kws == _as_list(Get(obj, "keywords"))
      second == IF _is_placeholder_title(PyStr(first)) /\ kws # <<>>
                  THEN Title(Join(<<" ", "/", " ">>, FirstTwo(kws)))
                  ELSE first
  IN IF _is_placeholder_title(PyStr(second)) THEN _title_from_filename(filename) ELSE second

\* _guess_title(obj, filename): returns a str
_guess_title(obj, filename) ==
  LET first == _first_nonempty(<<Get(obj, "title"), Get(obj, "service_name"), Get(obj, "name"),
                                 Get(obj, "headline"), Get(obj, "service"), Get(obj, "offering"),
                                 Get(obj, "product_name"), Get(obj, "category"),
                                 Get(obj, "subtype"), Get(obj, "type"), Get(obj, "label")>>)
      kws == _as_list(Get(obj, "keywords"))
      second == IF _is_placeholder_title(PyStr(first)) /\ kws # <<>>
                  THEN Title(Join(<<" ", "/", " ">>, FirstTwo(kws)))
                  ELSE first
      third == IF _is_placeholder_title(PyStr(second))
                 THEN _title_from_filename(filename)
                 ELSE second
  IN IF third # <<>> THEN third ELSE SERVICE_DEFAULT

\* ------------------------------------------------------------ files

\* A directory of schemas/: absent, or its files in sorted (lexicographic)
\* order. A file is [ext |-> its extension, doc |-> its content]: EmptyFile,
\* Unparsable (the parser raises), or the Python value the parser returns.
NoDir == [exists |-> FALSE, files |-> <<>>]
Dir(files) == [exists |-> TRUE, files |-> files]
EmptyFile == [t |-> "empty"]
Unparsable == [t |-> "unparsable"]

\* fname.lower().endswith((".json", ".yaml", ".yml"))
IsDataFile(f) == f.ext \in {"json", "yaml", "yml", "JSON", "YAML", "YML"}

\* load_data(filepath) of a listed file: a list of Python values
load_data(f) ==
  IF f.doc = EmptyFile THEN <<>>
  ELSE IF f.ext \in {"json", "yaml", "yml"}
    THEN IF f.doc = Unparsable THEN <<>>
         ELSE LET data == Or(f.doc, PyList(<<>>))
              IN IF IsList(data) THEN data.xs ELSE <<data>>
  ELSE <<>>

\* _normalize_records(payload), payload a Python value
_normalize_records(payload) ==
  IF IsList(payload) THEN payload.xs
  ELSE IF IsDict(payload)
    THEN IF IsList(Get(payload.d, "locations")) THEN payload.d["locations"].xs
         ELSE <<payload>>
  ELSE <<>>

\* ------------------------------------------------------------ map link

MAPS_URL == <<"h", "t", "t", "p", "s", ":", "/", "/", "w", "w", "w", ".", "g", "o", "o", "g", "l", "e", ".", "c", "o", "m", "/", "m", "a", "p", "s", "?", "q", "=">>
MAPS_ZOOM_EMBED == <<"&", "z", "=", "1", "5", "&", "o", "u", "t", "p", "u", "t", "=", "e", "m", "b", "e", "d">>
MAPS_EMBED == <<"&", "o", "u", "t", "p", "u", "t", "=", "e", "m", "b", "e", "d">>

\* urllib.parse.quote_plus of one character: letters, digits and _ . - ~ stay,
\* a space becomes +, anything else its %XX escape
QuoteChar(c) ==
  CASE IsLetter(c) \/ IsDigit(c) \/ c \in {"_", ".", "-", "~"} -> <<c>>
    [] c = " " -> <<"+">>
    [] c = "," -> <<"%", "2", "C">>
    [] c = "/" -> <<"%", "2", "F">>
    [] c = ":" -> <<"%", "3", "A">>
    [] c = "@" -> <<"%", "4", "0">>
    [] c = "\t" -> <<"%", "0", "9">>
    [] c = "\n" -> <<"%", "0", "A">>

\* urllib.parse.quote_plus(address)
quote_plus(str) == Concat([i \in DOMAIN str |-> QuoteChar(str[i])])

\* the two explicit URLs tried in the other order: the maps URL first
_map_embed_src_maps_url_first(loc, address) ==
  LET lat == _alias_get(PyDict(loc), "latitude")
      lng == _alias_get(PyDict(loc), "longitude")
      map_url == _first_nonempty(<<_alias_get(PyDict(loc), "map_embed_url")>>)
      gmaps == _first_nonempty(<<_alias_get(PyDict(loc), "google_maps_url")>>)
  IN IF IsNum(lat) /\ IsNum(lng)
       THEN MAPS_URL \o NumStr(lat) \o <<",">> \o NumStr(lng) \o MAPS_ZOOM_EMBED
     ELSE IF gmaps # <<>> THEN gmaps
     ELSE IF map_url # <<>> THEN map_url
     ELSE IF address # <<>> THEN MAPS_URL \o quote_plus(address) \o MAPS_EMBED
     ELSE <<>>

\* _map_embed_src(loc, address): returns a str
_map_embed_src(loc, address) ==
  LET lat == _alias_get(PyDict(loc), "latitude")
      lng == _alias_get(PyDict(loc), "longitude")
      map_url == _first_nonempty(<<_alias_get(PyDict(loc), "map_embed_url")>>)
      gmaps == _first_nonempty(<<_alias_get(PyDict(loc), "google_maps_url")>>)
  IN IF IsNum(lat) /\ IsNum(lng)
       THEN MAPS_URL \o NumStr(lat) \o <<",">> \o NumStr(lng) \o MAPS_ZOOM_EMBED
     ELSE IF map_url # <<>> THEN map_url
     ELSE IF gmaps # <<>> THEN gmaps
     ELSE IF address # <<>> THEN MAPS_URL \o quote_plus(address) \o MAPS_EMBED
     ELSE <<>>

\* ------------------------------------------------------------ site name

candidate_dirs ==
  <<"schemas/organization", "schemas/organizations", "schemas/company",
    "schemas/entity", "schemas/business">>

\* the directories _discover_entity_name_from_other_schemas probes after the
\* organization directories
other_probes == <<"schemas/reviews", "schemas/services", "schemas/locations">>

\* the directory of the tree at path
DirAt(tree, path) == IF path \in DOMAIN tree.dirs THEN tree.dirs[path] ELSE NoDir

\* the data files of a directory; glob.glob lists them in no particular order
DataFilesOf(dir) == {dir.files[i] : i \in {j \in DOMAIN dir.files : IsDataFile(dir.files[j])}}

\* an exception that leaves the function
Raise(e) == [t |-> "raised", e |-> e]
IsRaise(v) == v.t = "raised"

\* _load_first_yaml_json(path_glob): the first record of the first listed file
\* that loads to something; which file is listed first is up to the file system
LoadFirstOutcomes(dir) ==
  LET loaded == {f \in DataFilesOf(dir) : load_data(f) # <<>>}
  IN IF loaded = {} THEN {PyNone} ELSE {load_data(f)[1] : f \in loaded}

DiscoverFields ==
  <<"entity_name", "name", "legal_name", "brand", "company", "organization", "site_title">>

\* the candidate name of one probed object: "" when it yields none
DiscoverCandidate(obj) ==
  IF IsDict(obj) /\ Truthy(obj)
    THEN _first_nonempty([i \in DOMAIN DiscoverFields |-> Get(obj.d, DiscoverFields[i])])
    ELSE <<>>

\* _discover_entity_name_from_other_schemas(), from probe i on: the names it
\* may return (PyNone when no probe yields one)
RECURSIVE DiscoverOutcomes(_, _, _)
DiscoverOutcomes(tree, probes, i) ==
  IF i > Len(probes) THEN {PyNone}
  ELSE UNION {IF DiscoverCandidate(obj) # <<>>
                THEN {PyStr(DiscoverCandidate(obj))}
                ELSE DiscoverOutcomes(tree, probes, i + 1) :
              obj \in LoadFirstOutcomes(DirAt(tree, probes[i]))}

\* repo_slug.split("/", 1)[-1]: what follows the first slash, or all of it
AfterFirstSlash(str) ==
  IF \E i \in DOMAIN str : str[i] = "/"
    THEN SubSeq(str, (CHOOSE i \in DOMAIN str : str[i] = "/" /\ \A j \in 1..(i - 1) : str[j] # "/") + 1,
                Len(str))
    ELSE str

SITE == <<"S", "i", "t", "e">>
OUR_FIRM == <<"O", "u", "r", " ", "F", "i", "r", "m">>

\* the last fallback of load_org_meta: the name derived from GITHUB_REPOSITORY
RepoName(tree) ==
  LET repo_slug == IF Truthy(tree.env_repo) THEN tree.env_repo.s ELSE <<>>
  IN IF repo_slug # <<>> THEN Title(ReplaceChar(AfterFirstSlash(repo_slug), "-", " ")) ELSE SITE

\* the first candidate directory, from position i on, that exists and holds a
\* data file; 0 when there is none
RECURSIVE FirstOrgDir(_, _)
FirstOrgDir(tree, i) ==
  IF i > Len(candidate_dirs) THEN 0
  ELSE IF DirAt(tree, candidate_dirs[i]).exists /\ DataFilesOf(DirAt(tree, candidate_dirs[i])) # {}
    THEN i
  ELSE FirstOrgDir(tree, i + 1)

\* load_org_meta() once org (a Python value, PyNone when no file was found) is known
OrgMetaFrom(tree, org) ==
  LET name == IF IsDict(org)
                THEN _first_nonempty(<<Get(org.d, "entity_name"), Get(org.d, "name"),
                                       Get(org.d, "legal_name"), Get(org.d, "brand"),
                                       Get(org.d, "site_title")>>)
                ELSE <<>>
  IN IF name # <<>> THEN {[t |-> "meta", name |-> name]}
     ELSE {[t |-> "meta", name |-> IF Truthy(n) THEN n.s ELSE RepoName(tree)] :
             n \in DiscoverOutcomes(tree, candidate_dirs \o other_probes, 1)}

\* load_org_meta(): every outcome the file listing order allows, each a meta
\* record or the IndexError of `data[0]` on a file that loads to nothing
LoadOrgMetaOutcomes(tree) ==
  LET i == FirstOrgDir(tree, 1)
  IN IF i = 0 THEN OrgMetaFrom(tree, PyNone)
     ELSE UNION {IF load_data(org_file) = <<>>
                   THEN {Raise("IndexError")}
                   ELSE OrgMetaFrom(tree, load_data(org_file)[1]) :
                 org_file \in DataFilesOf(DirAt(tree, candidate_dirs[i]))}

\* ------------------------------------------------------------ pages

\* `with open(name, "w") as f: f.write(generate_page(title, content))`: open()
\* creates or truncates the file first; generate_page then calls
\* load_org_meta(), and when that raises the file is left empty
TruncatedPage == [t |-> "truncated"]
WrittenPage(site_name, body) == [t |-> "page", site_name |-> site_name, body |-> body]

\* generate_page's `org.get("name") or "Site"`
SiteNameOf(meta) == IF meta.name # <<>> THEN meta.name ELSE SITE

\* the file after the write: one outcome per outcome of load_org_meta()
WriteOutcomes(tree, body) ==
  {IF IsRaise(m) THEN TruncatedPage ELSE WrittenPage(SiteNameOf(m), body) :
     m \in LoadOrgMetaOutcomes(tree)}

\* ------------------------------------------------------------ contact page

LOCATION == <<"L", "o", "c", "a", "t", "i", "o", "n">>

\* _norm(s)
_norm(str) == Lower(Strip(str))

\* _norm_phone(s): re.sub(r"\D+", "", s)
_norm_phone(str) == SelectSeq(str, IsDigit)

\* the fields generate_contact_page extracts from one location record
ExtractLocation(loc) ==
  LET name == _first_nonempty(<<_alias_get(PyDict(loc), "entity_name"), Get(loc, "location_name")>>)
      addr == _format_address(Get(loc, "address"), loc)
  IN [entity |-> IF name # <<>> THEN name ELSE LOCATION,
      person |-> _first_nonempty(<<_alias_get(PyDict(loc), "contact_person")>>),
      phone |-> _first_nonempty(<<_alias_get(PyDict(loc), "phone")>>),
      email |-> _first_nonempty(<<_alias_get(PyDict(loc), "email")>>),
      addr |-> addr,
      hours |-> _extract_hours(loc),
      site |-> _first_nonempty(<<_alias_get(PyDict(loc), "website")>>),
      socials |-> _as_list(_alias_get(PyDict(loc), "sameAs")),
      map_src |-> _map_embed_src(loc, addr)]

\* a signature of the raw fields, nothing lower-cased, trimmed or reduced
LocSignature_raw(c) == <<c.entity, c.person, c.phone, c.email, c.addr, c.map_src>>

\* a signature that leaves the map URL out
LocSignature_without_map(c) ==
  <<_norm(c.entity), _norm(c.person), _norm_phone(c.phone), _norm(c.email), _norm(c.addr)>>

\* the dedupe signature of the extracted fields c
LocSignature(c) ==
  <<_norm(c.entity), _norm(c.person), _norm_phone(c.phone), _norm(c.email),
    _norm(c.addr), _norm(c.map_src)>>

\* the locals of generate_contact_page when it is called
ContactLocals ==
  [pc |-> "start", file |-> 0, data |-> <<>>, items |-> <<>>,
   files_seen |-> 0, records_seen |-> 0, rendered |-> 0, seen |-> {},
   quick_label |-> <<>>, quick_phone |-> <<>>, quick_email |-> <<>>,
   reported |-> <<>>]

\* what the page shows: the Quick Contact card, the location cards, and the
\* 'No contact locations found yet.' text
ContactBody(c) ==
  [quick |-> <<c.quick_label, c.quick_phone, c.quick_email>>,
   cards |-> c.items,
   placeholder |-> c.items = <<>>]

\* the page is written, or left truncated when load_org_meta() raises
ContactWrite(c, report) ==
  \E page \in WriteOutcomes(fs, ContactBody(c)) :
    /\ pages' = [f \in DOMAIN pages \cup {"contact.html"} |->
                   IF f = "contact.html" THEN page ELSE pages[f]]
    /\ contact' = IF page = TruncatedPage
                    THEN [c EXCEPT !.pc = "raised"]
                    ELSE [c EXCEPT !.pc = "done", !.reported = report]

\* lines 379-413: no locations directory, the placeholder page; else the scan starts
ContactStart ==
  /\ contact.pc = "start"
  /\ IF ~DirAt(fs, "schemas/locations").exists
       THEN ContactWrite(contact, <<>>)
       ELSE contact' = [contact EXCEPT !.pc = "scan"] /\ UNCHANGED pages
  /\ UNCHANGED <<call, ret, fs, main, about>>

\* lines 415-422: the next file of sorted(os.listdir(locations_dir))
ContactNextFile ==
  /\ contact.pc = "scan"
  /\ contact.data = <<>>
  /\ contact.file < Len(DirAt(fs, "schemas/locations").files)
  /\ LET f == DirAt(fs, "schemas/locations").files[contact.file + 1]
     IN contact' =
          IF ~IsDataFile(f) THEN [contact EXCEPT !.file = @ + 1]
          ELSE [contact EXCEPT !.file = @ + 1,
                               !.files_seen = @ + 1,
                               !.data = _normalize_records(PyList(load_data(f)))]
  /\ UNCHANGED <<call, ret, fs, main, about, pages>>

\* the scan of one record when a duplicate is skipped before it is counted
ContactRecord_duplicates_uncounted ==
  /\ contact.pc = "scan"
  /\ contact.data # <<>>
  /\ LET loc == Head(contact.data)
         rest == [contact EXCEPT !.data = Tail(@)]
     IN IF ~IsDict(loc) THEN contact' = rest
        ELSE LET c == ExtractLocation(loc.d)
                 sig == LocSignature(c)
             IN contact' =
                  IF sig \in contact.seen THEN rest
                  ELSE [rest EXCEPT
                          !.records_seen = @ + 1,
                          !.seen = @ \cup {sig},
                          !.quick_label = IF @ # <<>> THEN @
                                          ELSE IF c.person # <<>> THEN c.person ELSE c.entity,
                          !.quick_phone = IF @ = <<>> /\ c.phone # <<>> THEN c.phone ELSE @,
                          !.quick_email = IF @ = <<>> /\ c.email # <<>> THEN c.email ELSE @,
                          !.items = Append(@, c),
                          !.rendered = @ + 1]
  /\ UNCHANGED <<call, ret, fs, main, about, pages>>

\* the scan of one record when every rendered record with a phone sets the
\* Quick Contact phone
ContactRecord_last_phone_wins ==
  /\ contact.pc = "scan"
  /\ contact.data # <<>>
  /\ LET loc == Head(contact.data)
         rest == [contact EXCEPT !.data = Tail(@)]
     IN IF ~IsDict(loc) THEN contact' = rest
        ELSE LET c == ExtractLocation(loc.d)
                 sig == LocSignature(c)
                 counted == [rest EXCEPT !.records_seen = @ + 1]
             IN contact' =
                  IF sig \in contact.seen THEN counted
                  ELSE [counted EXCEPT
                          !.seen = @ \cup {sig},
                          !.quick_label = IF @ # <<>> THEN @
                                          ELSE IF c.person # <<>> THEN c.person ELSE c.entity,
                          !.quick_phone = IF c.phone # <<>> THEN c.phone ELSE @,
                          !.quick_email = IF @ = <<>> /\ c.email # <<>> THEN c.email ELSE @,
                          !.items = Append(@, c),
                          !.rendered = @ + 1]
  /\ UNCHANGED <<call, ret, fs, main, about, pages>>

\* lines 424-489: one record of the current file
ContactRecord ==
  /\ contact.pc = "scan"
  /\ contact.data # <<>>
  /\ LET loc == Head(contact.data)
         rest == [contact EXCEPT !.data = Tail(@)]
     IN IF ~IsDict(loc) THEN contact' = rest
        ELSE LET c == ExtractLocation(loc.d)
                 sig == LocSignature(c)
                 counted == [rest EXCEPT !.records_seen = @ + 1]
             IN contact' =
                  IF sig \in contact.seen THEN counted
                  ELSE [counted EXCEPT
                          !.seen = @ \cup {sig},
                          !.quick_label = IF @ # <<>> THEN @
                                          ELSE IF c.person # <<>> THEN c.person ELSE c.entity,
                          !.quick_phone = IF @ = <<>> /\ c.phone # <<>> THEN c.phone ELSE @,
                          !.quick_email = IF @ = <<>> /\ c.email # <<>> THEN c.email ELSE @,
                          !.items = Append(@, c),
                          !.rendered = @ + 1]
  /\ UNCHANGED <<call, ret, fs, main, about, pages>>

\* lines 491-508: the page is written and the counts are printed
ContactFinish ==
  /\ contact.pc = "scan"
  /\ contact.data = <<>>
  /\ contact.file = Len(DirAt(fs, "schemas/locations").files)
  /\ ContactWrite(contact,
                  [rendered |-> contact.rendered, files |-> contact.files_seen,
                   records |-> contact.records_seen,
                   deduped |-> contact.records_seen - contact.rendered])
  /\ UNCHANGED <<call, ret, fs, main, about>>

\* ------------------------------------------------------------ about page

\* the data files of a directory listing, loaded in order, their mapping
\* records kept (lines 717-724; load_data always returns a list)
RECURSIVE OrgsOfFiles(_)
OrgsOfFiles(files) ==
  IF files = <<>> THEN <<>>
  ELSE (IF IsDataFile(Head(files)) THEN SelectSeq(load_data(Head(files)), IsDict) ELSE <<>>)
       \o OrgsOfFiles(Tail(files))

\* the candidate directories from position i on (lines 714-716)
RECURSIVE OrgsOfDirs(_, _)
OrgsOfDirs(tree, i) ==
  IF i > Len(candidate_dirs) THEN <<>>
  ELSE (IF DirAt(tree, candidate_dirs[i]).exists
          THEN OrgsOfFiles(DirAt(tree, candidate_dirs[i]).files)
          ELSE <<>>)
       \o OrgsOfDirs(tree, i + 1)

\* _load_all_orgs()
_load_all_orgs(tree) == OrgsOfDirs(tree, 1)

scalar_order ==
  <<"entity_name", "name", "legal_name", "brand", "site_title",
    "description", "mission", "vision",
    "logo_url", "logo",
    "website", "main_website_url", "url",
    "phone", "email">>

list_keys == {"sameAs", "same_as", "social", "social_links"}

\* the inner loop without its break: the last org with a value for key
RECURSIVE FirstOrgWith_no_break(_, _, _)
FirstOrgWith_no_break(orgs, key, i) ==
  IF i > Len(orgs) THEN 0
  ELSE LET later == FirstOrgWith_no_break(orgs, key, i + 1)
       IN IF later # 0 THEN later
          ELSE IF _first_nonempty(<<Get(orgs[i].d, key)>>) # <<>> THEN i
          ELSE 0

\* `for org in orgs: ... break`: the first org, from position i on, whose
\* value for key _first_nonempty accepts; 0 when there is none
RECURSIVE FirstOrgWith(_, _, _)
FirstOrgWith(orgs, key, i) ==
  IF i > Len(orgs) THEN 0
  ELSE IF _first_nonempty(<<Get(orgs[i].d, key)>>) # <<>> THEN i
  ELSE FirstOrgWith(orgs, key, i + 1)

\* one round of `for key in scalar_order`: merged after it
MergeScalar(merged, orgs, key) ==
  LET i == FirstOrgWith(orgs, key, 1)
  IN IF i = 0 THEN merged
     ELSE [k \in DOMAIN merged \cup {key} |->
             IF k = key THEN _first_nonempty(<<Get(orgs[i].d, key)>>) ELSE merged[k]]

\* the orders in which `for lk in list_keys` may visit the keys of the set
ListKeyOrders ==
  {o \in [1..Cardinality(list_keys) -> list_keys] :
     \A i, j \in DOMAIN o : i # j => o[i] # o[j]}

\* socials.extend(_as_list(org.get(lk))) for the keys of one org, from position i on
RECURSIVE SocialsOfOrg(_, _, _)
SocialsOfOrg(org, order, i) ==
  IF i > Len(order) THEN <<>>
  ELSE _as_list(Get(org.d, order[i])) \o SocialsOfOrg(org, order, i + 1)

RECURSIVE SocialsOf(_, _)
SocialsOf(orgs, order) ==
  IF orgs = <<>> THEN <<>>
  ELSE SocialsOfOrg(Head(orgs), order, 1) \o SocialsOf(Tail(orgs), order)

\* a de-duplication that compares the links with their letter case folded
RECURSIVE Dedup_fold_case(_, _)
Dedup_fold_case(xs, seen) ==
  IF xs = <<>> THEN <<>>
  ELSE IF Head(xs) # <<>> /\ Lower(Head(xs)) \notin seen
    THEN <<Head(xs)>> \o Dedup_fold_case(Tail(xs), seen \cup {Lower(Head(xs))})
  ELSE Dedup_fold_case(Tail(xs), seen)

\* the order-preserving de-duplication of lines 753-757
RECURSIVE Dedup(_, _)
Dedup(xs, seen) ==
  IF xs = <<>> THEN <<>>
  ELSE IF Head(xs) # <<>> /\ Head(xs) \notin seen
    THEN <<Head(xs)>> \o Dedup(Tail(xs), seen \cup {Head(xs)})
  ELSE Dedup(Tail(xs), seen)

\* for key in scalar_order, from position i on
RECURSIVE MergeScalars(_, _, _)
MergeScalars(merged, orgs, i) ==
  IF i > Len(scalar_order) THEN merged
  ELSE MergeScalars(MergeScalar(merged, orgs, scalar_order[i]), orgs, i + 1)

\* _merge_orgs(orgs) when the keys of list_keys are visited in the given
\* order: the scalar entries of merged, and merged["sameAs_merged"] (<<>> when
\* the key is not set)
_merge_orgs(orgs, order) ==
  [scalars |-> MergeScalars(<<>>, orgs, 1),
   sameAs_merged |-> Dedup(SocialsOf(orgs, order), {})]

\* merged.get(key): the merged scalar as a Python value
MergedGet(merged, key) == IF key \in DOMAIN merged THEN PyStr(merged[key]) ELSE PyNone

DESC_DEFAULT ==
  <<" ", "i", "s", " ", "a", " ", "r", "e", "s", "u", "l", "t", "s", "-", "d", "r", "i", "v", "e", "n", " ", "l", "a", "w", " ", "f", "i", "r", "m", " ", "f", "o", "c", "u", "s", "e", "d", " ", "o", "n", " ", "c", "l", "i", "e", "n", "t", " ", "a", "d", "v", "o", "c", "a", "c", "y", " ", "a", "n", "d", " ", "o", "u", "t", "s", "t", "a", "n", "d", "i", "n", "g", " ", "o", "u", "t", "c", "o", "m", "e", "s", ".">>

\* the locals of generate_about_page when it is called; merged["sameAs_merged"]
\* is kept in sameAs_merged (<<>> when the key is not set)
AboutLocals ==
  [pc |-> "start", orgs |-> <<>>, key |-> 0, merged |-> <<>>, sameAs_merged |-> <<>>,
   site_name |-> <<>>, raised_at |-> "none"]

\* the organization profile the page shows (lines 822-832 and the JSON-LD block)
AboutBody(a) ==
  LET desc == _first_nonempty(<<MergedGet(a.merged, "description")>>)
  IN [site_name |-> a.site_name,
      logo_url |-> _first_nonempty(<<MergedGet(a.merged, "logo_url"), MergedGet(a.merged, "logo")>>),
      website |-> _first_nonempty(<<MergedGet(a.merged, "website"),
                                    MergedGet(a.merged, "main_website_url"),
                                    MergedGet(a.merged, "url")>>),
      desc |-> IF desc # <<>> THEN desc ELSE a.site_name \o DESC_DEFAULT,
      mission |-> _first_nonempty(<<MergedGet(a.merged, "mission")>>),
      vision |-> _first_nonempty(<<MergedGet(a.merged, "vision")>>),
      phone |-> _first_nonempty(<<MergedGet(a.merged, "phone")>>),
      email |-> _first_nonempty(<<MergedGet(a.merged, "email")>>),
      sameas |-> a.sameAs_merged]

\* lines 810-811: all_orgs = _load_all_orgs(); no merge when there is none
AboutLoadOrgs ==
  /\ about.pc = "start"
  /\ LET all_orgs == _load_all_orgs(fs)
     IN about' = IF all_orgs = <<>>
                   THEN [about EXCEPT !.pc = "site_name"]
                   ELSE [about EXCEPT !.pc = "scalars", !.orgs = all_orgs, !.key = 1]
  /\ UNCHANGED <<call, ret, fs, main, contact, pages>>

\* lines 740-745: one key of scalar_order
AboutMergeScalar ==
  /\ about.pc = "scalars"
  /\ about' = [about EXCEPT
                 !.merged = MergeScalar(@, about.orgs, scalar_order[about.key]),
                 !.key = @ + 1,
                 !.pc = IF about.key = Len(scalar_order) THEN "socials" ELSE "scalars"]
  /\ UNCHANGED <<call, ret, fs, main, contact, pages>>

\* lines 747-760: the social lists of all orgs, merged and de-duplicated
AboutMergeSocials ==
  /\ about.pc = "socials"
  /\ \E order \in ListKeyOrders :
       about' = [about EXCEPT !.sameAs_merged = Dedup(SocialsOf(about.orgs, order), {}),
                              !.pc = "site_name"]
  /\ UNCHANGED <<call, ret, fs, main, contact, pages>>

\* lines 813-821: every argument is evaluated, load_org_meta() included
AboutSiteName ==
  /\ about.pc = "site_name"
  /\ \E meta \in LoadOrgMetaOutcomes(fs) :
       about' = IF IsRaise(meta)
                  THEN [about EXCEPT !.pc = "raised", !.raised_at = "site_name"]
                  ELSE [about EXCEPT
                          !.pc = "write",
                          !.site_name =
                            _first_nonempty(<<MergedGet(about.merged, "entity_name"),
                                              MergedGet(about.merged, "name"),
                                              MergedGet(about.merged, "legal_name"),
                                              MergedGet(about.merged, "brand"),
                                              MergedGet(about.merged, "site_title"),
                                              PyStr(meta.name),
                                              PyStr(OUR_FIRM)>>)]
  /\ UNCHANGED <<call, ret, fs, main, contact, pages>>

\* lines 1039-1040: about.html is written, or left truncated when
\* load_org_meta() raises inside generate_page
AboutWrite ==
  /\ about.pc = "write"
  /\ \E page \in WriteOutcomes(fs, AboutBody(about)) :
       /\ pages' = [f \in DOMAIN pages \cup {"about.html"} |->
                      IF f = "about.html" THEN page ELSE pages[f]]
       /\ about' = IF page = TruncatedPage
                     THEN [about EXCEPT !.pc = "raised", !.raised_at = "generate_page"]
                     ELSE [about EXCEPT !.pc = "done"]
  /\ UNCHANGED <<call, ret, fs, main, contact>>

\* ------------------------------------------------------------ services page

\* text.replace("&", "&amp;").replace("<", "&lt;").replace(">", "&gt;"), one character
EscapeChar(c) ==
  CASE c = "&" -> <<"&", "a", "m", "p", ";">>
    [] c = "<" -> <<"&", "l", "t", ";">>
    [] c = ">" -> <<"&", "g", "t", ";">>
    [] OTHER -> <<c>>

\* escape_html(text), text a Python value: "" for anything that is not a str
escape_html(text) ==
  IF ~IsStr(text) THEN <<>> ELSE Concat([i \in DOMAIN text.s |-> EscapeChar(text.s[i])])

\* re.sub(r'[\s]+', '-', s): every run of whitespace becomes one hyphen
RECURSIVE DashRuns(_)
DashRuns(str) ==
  IF str = <<>> THEN <<>>
  ELSE IF Head(str) \in Whitespace THEN <<"-">> \o DashRuns(LStrip(str))
  ELSE <<Head(str)>> \o DashRuns(Tail(str))

\* slugify(text), text a Python value
slugify(text) ==
  IF ~Truthy(text) THEN <<"i", "t", "e", "m">>
  ELSE LET kept == SelectSeq(StrOfValue(text),
                             LAMBDA c : IsLetter(c) \/ IsDigit(c) \/ c \in Whitespace \/ c = "-")
           slug == DashRuns(Lower(Strip(kept)))
       IN IF slug # <<>> THEN slug ELSE <<"i", "t", "e", "m">>

\* _guess_description(obj)
_guess_description(obj) ==
  _first_nonempty(<<Get(obj, "description"), Get(obj, "summary"), Get(obj, "details"),
                    Get(obj, "body"), Get(obj, "content"), Get(obj, "answer"),
                    Get(obj, "copy")>>)

\* _guess_price(obj)
_guess_price(obj) ==
  LET price == _first_nonempty(<<Get(obj, "price"), Get(obj, "price_range"),
                                 Get(obj, "starting_price"), Get(obj, "min_price"),
                                 Get(obj, "cost"), Get(obj, "fee")>>)
  IN IF price # <<>> THEN price ELSE <<"C", "o", "n", "t", "a", "c", "t", " ", "f", "o", "r", " ", "p", "r", "i", "c", "i", "n", "g">>

\* seq[:n]
Take(seq, n) == SubSeq(seq, 1, IF Len(seq) < n THEN Len(seq) ELSE n)

\* lines 110-113: the bullets whose lower-cased text was not seen before
RECURSIVE DedupLower(_, _)
DedupLower(bullets, seen) ==
  IF bullets = <<>> THEN <<>>
  ELSE IF Lower(Head(bullets)) \in seen THEN DedupLower(Tail(bullets), seen)
  ELSE <<Head(bullets)>> \o DedupLower(Tail(bullets), seen \cup {Lower(Head(bullets))})

\* _bullet_points(obj)
_bullet_points(obj) ==
  LET feats == _as_list(Or(Get(obj, "features"), Or(Get(obj, "benefits"), Get(obj, "highlights"))))
      specs == _as_list(Or(Get(obj, "specialties"), Get(obj, "capabilities")))
      areas == _as_list(Or(Get(obj, "service_areas"),
                           Or(Get(obj, "areas"), Get(obj, "locations_served"))))
      first == IF feats # <<>> THEN Take(feats, 3) ELSE Take(specs, 3)
      bullets == IF areas # <<>>
                   THEN Append(first, <<"S", "e", "r", "v", "i", "c", "e", " ", "a", "r", "e", "a", "s", ":", " ">> \o Join(<<",", " ">>, Take(areas, 5)))
                   ELSE first
  IN Take(DedupLower(bullets, {}), 4)

\* the text of a file extension
ExtChars == [json |-> <<"j", "s", "o", "n">>, yaml |-> <<"y", "a", "m", "l">>, yml |-> <<"y", "m", "l">>, JSON |-> <<"J", "S", "O", "N">>,
             md |-> <<"m", "d">>, txt |-> <<"t", "x", "t">>]

SERVICES_DIR == <<"s", "c", "h", "e", "m", "a", "s", "/", "s", "e", "r", "v", "i", "c", "e", "s", "/">>

\* os.path.join(services_dir, file) of a listed file [name, ext, doc]
ServicePath(f) == SERVICES_DIR \o f.name \o <<".">> \o ExtChars[f.ext]

\* file.endswith((".json", ".yaml", ".yml")): the case of the letters counts
EndsWithDataExt(f) == f.ext \in {"json", "yaml", "yml"}

\* lines 553-559: a record whose services is a list stands for that list
RECURSIVE ExpandServices(_)
ExpandServices(records) ==
  IF records = <<>> THEN <<>>
  ELSE LET rec == Head(records)
       IN (IF IsDict(rec) /\ IsList(Get(rec.d, "services"))
             THEN rec.d["services"].xs
             ELSE <<rec>>) \o ExpandServices(Tail(records))

\* lines 565-586: the card of one service record of the file at filepath
ServiceCard(svc, filepath) ==
  LET title == _guess_title(svc, filepath)
      slug == Or(Get(svc, "slug"), PyStr(slugify(PyStr(title))))
  IN [id |-> escape_html(slug),
      title |-> escape_html(PyStr(title)),
      featured |-> Truthy(Or(Get(svc, "featured"), Get(svc, "is_featured"))),
      description |-> escape_html(PyStr(_guess_description(svc))),
      bullets |-> [i \in DOMAIN _bullet_points(svc) |-> escape_html(PyStr(_bullet_points(svc)[i]))],
      price |-> escape_html(PyStr(_guess_price(svc))),
      href |-> slug]

\* the cards of the mapping records among expanded, in order
RECURSIVE ServiceCards(_, _)
ServiceCards(expanded, filepath) ==
  IF expanded = <<>> THEN <<>>
  ELSE (IF IsDict(Head(expanded)) THEN <<ServiceCard(Head(expanded).d, filepath)>> ELSE <<>>)
       \o ServiceCards(Tail(expanded), filepath)

\* lines 544-586: the cards of the files of sorted(os.listdir(services_dir))
RECURSIVE ServiceItems(_)
ServiceItems(files) ==
  IF files = <<>> THEN <<>>
  ELSE (IF EndsWithDataExt(Head(files))
          THEN ServiceCards(ExpandServices(load_data(Head(files))), ServicePath(Head(files)))
          ELSE <<>>) \o ServiceItems(Tail(files))

\* open(name, "w") and f.write(generate_page(...)): the file after the write
WritePage(name, page) ==
  [f \in DOMAIN pages \cup {name} |-> IF f = name THEN page ELSE pages[f]]

\* what a data page shows: its cards, or the 'No ... found yet.' text
PageBody(items) == [placeholder |-> items = <<>>, cards |-> items]

\* a generator that writes one page and returns True, unless the write raises
WritesAndReturns(name, body) ==
  \E page \in WriteOutcomes(fs, body) :
    /\ pages' = WritePage(name, page)
    /\ ret' = IF page = TruncatedPage THEN Raise("IndexError") ELSE PyBool(TRUE)

\* generate_services_page()
generate_services_page ==
  /\ call.fn = "generate_services_page"
  /\ ret = Pending
  /\ LET dir == DirAt(fs, "schemas/services")
     IN WritesAndReturns("services.html",
                         PageBody(IF dir.exists THEN ServiceItems(dir.files) ELSE <<>>))
  /\ UNCHANGED <<call, fs, contact, about, main>>

\* ------------------------------------------------------------ testimonials page

\* the number a string of digits writes
RECURSIVE DecimalValue(_)
DecimalValue(str) ==
  IF str = <<>> THEN 0
  ELSE 10 * DecimalValue(SubSeq(str, 1, Len(str) - 1)) + (IndexOf(Digits, str[Len(str)]) - 1)

\* lines 623-626: int(float(str(v))), 5 when that raises. float() accepts a
\* string of digits with white space around it; a string without any digit
\* either fails to parse or is inf/nan, which int() rejects
RatingOf(v) ==
  CASE v.t \in {"int", "float"} -> v.n
    [] v.t \in {"none", "bool", "list", "dict"} -> 5
    [] v.t = "str" /\ Strip(v.s) # <<>> /\ \A i \in DOMAIN Strip(v.s) : IsDigit(Strip(v.s)[i]) ->
         DecimalValue(Strip(v.s))
    [] v.t = "str" /\ \A i \in DOMAIN v.s : ~IsDigit(v.s[i]) -> 5

\* lines 620-639: the card of one review record
TestimonialCard(rev) ==
  LET author == _first_nonempty(<<Get(rev, "customer_name"), Get(rev, "author")>>)
      entity == Or(Get(rev, "entity_name"), PyStr(<<>>))
      quote == _first_nonempty(<<Get(rev, "review_body"), Get(rev, "quote"),
                                 Get(rev, "review_title")>>)
      rating == RatingOf(Get(rev, "rating"))
  IN [quote |-> escape_html(PyStr(IF quote # <<>> THEN quote ELSE <<"N", "o", " ", "r", "e", "v", "i", "e", "w", " ", "t", "e", "x", "t", " ", "p", "r", "o", "v", "i", "d", "e", "d", ".">>)),
      author |-> escape_html(PyStr(IF author # <<>> THEN author ELSE <<"A", "n", "o", "n", "y", "m", "o", "u", "s">>)),
      entity |-> IF Truthy(entity) THEN <<escape_html(entity)>> ELSE <<>>,
      date |-> escape_html(PyStr(_first_nonempty(<<Get(rev, "date")>>))),
      stars |-> IF rating < 0 THEN 0 ELSE IF rating > 5 THEN 5 ELSE rating]

\* the cards of the mapping records of a loaded file, in order
RECURSIVE TestimonialCards(_)
TestimonialCards(rev_data) ==
  IF rev_data = <<>> THEN <<>>
  ELSE (IF IsDict(Head(rev_data)) THEN <<TestimonialCard(Head(rev_data).d)>> ELSE <<>>)
       \o TestimonialCards(Tail(rev_data))

\* lines 612-639: the cards of the files in the order os.listdir gave them
RECURSIVE TestimonialItems(_, _, _)
TestimonialItems(files, order, i) ==
  IF i > Len(files) THEN <<>>
  ELSE (IF EndsWithDataExt(files[order[i]])
          THEN TestimonialCards(load_data(files[order[i]]))
          ELSE <<>>) \o TestimonialItems(files, order, i + 1)

\* generate_testimonials_page(): os.listdir is not sorted here, so the files
\* are read in whatever order the file system lists them
generate_testimonials_page ==
  /\ call.fn = "generate_testimonials_page"
  /\ ret = Pending
  /\ LET dir == DirAt(fs, "schemas/reviews")
     IN \E order \in Permutations(DOMAIN dir.files) :
          WritesAndReturns("testimonials.html",
                           PageBody(IF dir.exists THEN TestimonialItems(dir.files, order, 1)
                                                  ELSE <<>>))
  /\ UNCHANGED <<call, fs, contact, about, main>>

\* ------------------------------------------------------------ FAQ page

\* needle in t
Contains(t, needle) ==
  \E i \in 1..(Len(t) - Len(needle) + 1) : SubSeq(t, i, i + Len(needle) - 1) = needle

\* lines 1052-1073
category_maps ==
  <<<<<<"d", "u", "i">>, <<"D", "U", "I", " ", "&", " ", "D", "M", "V">>>>, <<<<"d", "m", "v">>, <<"D", "U", "I", " ", "&", " ", "D", "M", "V">>>>,
    <<<<"p", "e", "r", "s", "o", "n", "a", "l", " ", "i", "n", "j", "u", "r", "y">>, <<"P", "e", "r", "s", "o", "n", "a", "l", " ", "I", "n", "j", "u", "r", "y">>>>, <<<<"i", "n", "j", "u", "r", "y">>, <<"P", "e", "r", "s", "o", "n", "a", "l", " ", "I", "n", "j", "u", "r", "y">>>>,
    <<<<"c", "a", "r", " ", "a", "c", "c", "i", "d", "e", "n", "t">>, <<"P", "e", "r", "s", "o", "n", "a", "l", " ", "I", "n", "j", "u", "r", "y">>>>, <<<<"p", "r", "o", "p", "e", "r", "t", "y", " ", "d", "a", "m", "a", "g", "e">>, <<"P", "r", "o", "p", "e", "r", "t", "y", " ", "D", "a", "m", "a", "g", "e">>>>,
    <<<<"f", "e", "l", "o", "n", "y">>, <<"F", "e", "l", "o", "n", "y">>>>, <<<<"m", "i", "s", "d", "e", "m", "e", "a", "n", "o", "r">>, <<"M", "i", "s", "d", "e", "m", "e", "a", "n", "o", "r">>>>, <<<<"f", "e", "d", "e", "r", "a", "l">>, <<"F", "e", "d", "e", "r", "a", "l">>>>,
    <<<<"s", "t", "a", "t", "e">>, <<"S", "t", "a", "t", "e">>>>, <<<<"t", "r", "i", "a", "l">>, <<"T", "r", "i", "a", "l">>>>, <<<<"a", "p", "p", "e", "a", "l">>, <<"A", "p", "p", "e", "a", "l", "s">>>>,
    <<<<"d", "o", "m", "e", "s", "t", "i", "c", " ", "v", "i", "o", "l", "e", "n", "c", "e">>, <<"D", "o", "m", "e", "s", "t", "i", "c", " ", "V", "i", "o", "l", "e", "n", "c", "e">>>>, <<<<"d", "r", "u", "g">>, <<"D", "r", "u", "g", " ", "C", "r", "i", "m", "e", "s">>>>,
    <<<<"j", "u", "v", "e", "n", "i", "l", "e">>, <<"J", "u", "v", "e", "n", "i", "l", "e">>>>, <<<<"e", "x", "p", "u", "n", "g">>, <<"E", "x", "p", "u", "n", "g", "e", "m", "e", "n", "t">>>>, <<<<"b", "a", "i", "l">>, <<"B", "a", "i", "l">>>>,
    <<<<"s", "e", "n", "t", "e", "n", "c">>, <<"S", "e", "n", "t", "e", "n", "c", "i", "n", "g">>>>, <<<<"w", "i", "t", "n", "e", "s", "s">>, <<"T", "r", "i", "a", "l">>>>, <<<<"s", "a", "n", " ", "d", "i", "e", "g", "o">>, <<"S", "a", "n", " ", "D", "i", "e", "g", "o">>>>>>

\* _guess_category_from_text(text): the category of the first needle found
_guess_category_from_text(text) ==
  LET t == Lower(text)
      found == {i \in DOMAIN category_maps : Contains(t, category_maps[i][1])}
  IN IF found = {} THEN <<"G", "e", "n", "e", "r", "a", "l">>
     ELSE category_maps[CHOOSE i \in found : \A j \in found : i <= j][2]

\* the categories in the order sorted() puts them
sorted_categories ==
  <<<<"A", "p", "p", "e", "a", "l", "s">>, <<"B", "a", "i", "l">>, <<"D", "U", "I", " ", "&", " ", "D", "M", "V">>, <<"D", "o", "m", "e", "s", "t", "i", "c", " ", "V", "i", "o", "l", "e", "n", "c", "e">>, <<"D", "r", "u", "g", " ", "C", "r", "i", "m", "e", "s">>, <<"E", "x", "p", "u", "n", "g", "e", "m", "e", "n", "t">>,
    <<"F", "e", "d", "e", "r", "a", "l">>, <<"F", "e", "l", "o", "n", "y">>, <<"G", "e", "n", "e", "r", "a", "l">>, <<"J", "u", "v", "e", "n", "i", "l", "e">>, <<"M", "i", "s", "d", "e", "m", "e", "a", "n", "o", "r">>, <<"P", "e", "r", "s", "o", "n", "a", "l", " ", "I", "n", "j", "u", "r", "y">>,
    <<"P", "r", "o", "p", "e", "r", "t", "y", " ", "D", "a", "m", "a", "g", "e">>, <<"S", "a", "n", " ", "D", "i", "e", "g", "o">>, <<"S", "e", "n", "t", "e", "n", "c", "i", "n", "g">>, <<"S", "t", "a", "t", "e">>, <<"T", "r", "i", "a", "l">>>>

\* _toc_block(title_items), title_items a list of <<anchor, title, category>>:
\* one group per category present, the groups sorted by category
_toc_block(title_items) ==
  LET group(cat) == [cat |-> escape_html(PyStr(cat)),
                     links |-> LET mine == SelectSeq(title_items, LAMBDA it : it[3] = cat)
                               IN [i \in DOMAIN mine |->
                                     <<escape_html(PyStr(mine[i][1])), escape_html(PyStr(mine[i][2]))>>]]
      present == SelectSeq(sorted_categories,
                           LAMBDA cat : \E i \in DOMAIN title_items : title_items[i][3] = cat)
  IN [i \in DOMAIN present |-> group(present[i])]

\* lines 1111-1112: (item.get(key) or '').strip() raises AttributeError when
\* the value is truthy and not a str
StripRaises(v) == Truthy(v) /\ ~IsStr(v)

\* lines 1111-1123: the entry of one FAQ mapping, <<>> when it has no question
FaqEntry(item) ==
  LET question == Strip(Or(Get(item, "question"), PyStr(<<>>)).s)
      answer == Strip(Or(Get(item, "answer"), PyStr(<<>>)).s)
      anchor == Take(slugify(PyStr(question)), 80)
      cat == _guess_category_from_text(
               question \o <<" ">> \o Join(<<" ">>, _as_list(Get(item, "keywords"))))
  IN IF question = <<>> THEN <<>>
     ELSE <<[toc |-> <<anchor, question, cat>>,
             card |-> [id |-> escape_html(PyStr(anchor)),
                       question |-> escape_html(PyStr(question)),
                       answer |-> escape_html(PyStr(answer))]]>>

\* the records the FAQ loop visits: those of the data files of the sorted listing
RECURSIVE FaqRecords(_)
FaqRecords(files) ==
  IF files = <<>> THEN <<>>
  ELSE (IF EndsWithDataExt(Head(files)) THEN SelectSeq(load_data(Head(files)), IsDict) ELSE <<>>)
       \o FaqRecords(Tail(files))

\* the entries of the records visited, in order
RECURSIVE FaqEntries(_)
FaqEntries(records) ==
  IF records = <<>> THEN <<>>
  ELSE FaqEntry(Head(records).d) \o FaqEntries(Tail(records))

\* what a page with a table of contents shows
TocBody(entries) ==
  [placeholder |-> entries = <<>>,
   toc |-> IF entries = <<>> THEN <<>>
           ELSE _toc_block([i \in DOMAIN entries |-> entries[i].toc]),
   cards |-> [i \in DOMAIN entries |-> entries[i].card]]

\* generate_faq_page(): the first record that cannot be stripped ends the
\* call with its AttributeError, before faqs.html is opened
generate_faq_page ==
  /\ call.fn = "generate_faq_page"
  /\ ret = Pending
  /\ LET dir == DirAt(fs, "schemas/faqs")
         records == IF dir.exists THEN FaqRecords(dir.files) ELSE <<>>
     IN IF \E i \in DOMAIN records : StripRaises(Get(records[i].d, "question"))
                                     \/ StripRaises(Get(records[i].d, "answer"))
          THEN ret' = Raise("AttributeError") /\ UNCHANGED pages
          ELSE WritesAndReturns("faqs.html", TocBody(FaqEntries(records)))
  /\ UNCHANGED <<call, fs, contact, about, main>>

\* ------------------------------------------------------------ help page

\* a file whose bytes are not UTF-8: f.read() raises UnicodeDecodeError
Undecodable == [t |-> "undecodable"]

\* content.splitlines(), for content whose only line break is "\n"
RECURSIVE SplitLines(_)
SplitLines(content) ==
  IF content = <<>> THEN <<>>
  ELSE IF \E i \in DOMAIN content : content[i] = "\n"
    THEN LET nl == CHOOSE i \in DOMAIN content :
                     content[i] = "\n" /\ \A j \in 1..(i - 1) : content[j] # "\n"
         IN <<SubSeq(content, 1, nl - 1)>> \o SplitLines(SubSeq(content, nl + 1, Len(content)))
  ELSE <<content>>

\* line.split(":", 1)[1].strip(), for a line that holds a colon
AfterFirstColon(line) ==
  LET colon == CHOOSE i \in DOMAIN line : line[i] = ":" /\ \A j \in 1..(i - 1) : line[j] # ":"
  IN Strip(SubSeq(line, colon + 1, Len(line)))

\* lines 1155-1179: the front matter and the body of the lines from i on.
\* title is PyNone until a title: line of the front matter sets it
RECURSIVE ParseArticle(_, _, _)
ParseArticle(lines, i, st) ==
  IF i > Len(lines) THEN st
  ELSE LET line == lines[i]
       IN ParseArticle(lines, i + 1,
            IF Strip(line) = <<"-", "-", "-">> /\ ~st.fm_done
              THEN [st EXCEPT !.in_frontmatter = ~@, !.fm_done = st.in_frontmatter]
            ELSE IF st.in_frontmatter /\ ~st.fm_done
              THEN IF StartsWith(Lower(line), <<"t", "i", "t", "l", "e", ":">>)
                     THEN [st EXCEPT !.title = PyStr(AfterFirstColon(line))]
                   ELSE IF StartsWith(Lower(line), <<"k", "e", "y", "w", "o", "r", "d", "s", ":">>)
                     THEN [st EXCEPT !.keywords = StrippedNonEmpty(SplitComma(AfterFirstColon(line)))]
                   ELSE st
            ELSE [st EXCEPT !.body_lines = Append(@, line)])

\* str.replace(old, ""), old not empty
RECURSIVE RemoveAll(_, _)
RemoveAll(str, old) ==
  IF Len(str) < Len(old) THEN str
  ELSE IF StartsWith(str, old) THEN RemoveAll(SubSeq(str, Len(old) + 1, Len(str)), old)
  ELSE <<Head(str)>> \o RemoveAll(Tail(str), old)

\* lines 1186-1196: the very minimal markdown -> html of one body line
HelpLine(line) ==
  IF StartsWith(line, <<"#", "#", " ">>) THEN <<"h2", escape_html(PyStr(SubSeq(line, 4, Len(line))))>>
  ELSE IF StartsWith(line, <<"#", " ">>) THEN <<"h1", escape_html(PyStr(SubSeq(line, 3, Len(line))))>>
  ELSE IF StartsWith(line, <<"-", " ">>) \/ StartsWith(line, <<"*", " ">>)
    THEN <<"bullet", escape_html(PyStr(SubSeq(line, 3, Len(line))))>>
  ELSE IF Strip(line) = <<>> THEN <<"br", <<>>>>
  ELSE <<"p", escape_html(PyStr(line))>>

\* lines 1151-1208: the article of one .md file [name, ext, doc], doc a str
HelpArticle(f) ==
  LET st == ParseArticle(SplitLines(f.doc.s), 1,
                         [title |-> PyNone, body_lines |-> <<>>, in_frontmatter |-> FALSE,
                          fm_done |-> FALSE, keywords |-> <<>>])
      title == IF Truthy(st.title) THEN st.title.s
               ELSE Title(ReplaceChar(RemoveAll(f.name \o <<".", "m", "d">>, <<".", "m", "d">>), "-", " "))
      anchor == Take(slugify(PyStr(title)), 80)
  IN [toc |-> <<anchor, title,
                _guess_category_from_text(title \o <<" ">> \o Join(<<" ">>, st.keywords))>>,
      card |-> [id |-> escape_html(PyStr(anchor)),
                title |-> escape_html(PyStr(title)),
                html_lines |-> [i \in DOMAIN st.body_lines |-> HelpLine(st.body_lines[i])]]]

\* generate_help_articles_page(): the .md files in sorted order; one that
\* cannot be decoded ends the call with its error, before help.html is opened
generate_help_articles_page ==
  /\ call.fn = "generate_help_articles_page"
  /\ ret = Pending
  /\ LET dir == DirAt(fs, "schemas/help-articles")
         files_found == IF dir.exists THEN SelectSeq(dir.files, LAMBDA f : f.ext = "md") ELSE <<>>
     IN IF \E i \in DOMAIN files_found : files_found[i].doc = Undecodable
          THEN ret' = Raise("UnicodeDecodeError") /\ UNCHANGED pages
          ELSE WritesAndReturns("help.html",
                                TocBody([i \in DOMAIN files_found |-> HelpArticle(files_found[i])]))
  /\ UNCHANGED <<call, fs, contact, about, main>>

\* ------------------------------------------------------------ index page

\* file.endswith((".json", ".yaml", ".yml", ".md", ".llm"))
IsLinkedFile(f) == f.ext \in {"json", "yaml", "yml", "md", "llm"}

\* lines 678-684: how many files of the tree the page links to
SchemaLinks(tree) ==
  [d \in DOMAIN tree.dirs |->
     Cardinality({i \in DOMAIN tree.dirs[d].files : IsLinkedFile(tree.dirs[d].files[i])})]

\* generate_index_page(): load_org_meta() first, then False when
\* GITHUB_REPOSITORY is not set, else the page of links
generate_index_page ==
  /\ call.fn = "generate_index_page"
  /\ ret = Pending
  /\ \E org \in LoadOrgMetaOutcomes(fs) :
       IF IsRaise(org) THEN ret' = org /\ UNCHANGED pages
       ELSE IF ~Truthy(fs.env_repo) THEN ret' = PyBool(FALSE) /\ UNCHANGED pages
       ELSE \E page \in WriteOutcomes(fs, [welcome |-> SiteNameOf(org), links |-> SchemaLinks(fs)]) :
              /\ pages' = WritePage("index.html", page)
              /\ ret' = IF page = TruncatedPage THEN Raise("IndexError") ELSE PyBool(TRUE)
  /\ UNCHANGED <<call, fs, contact, about, main>>

\* ------------------------------------------------------------ entry point

\* line 1257
html_files ==
  <<"index.html", "about.html", "services.html", "testimonials.html", "faqs.html",
    "help.html", "contact.html">>

\* lines 1264-1272
page_generators ==
  <<[filename |-> "index.html", generator |-> "generate_index_page"],
    [filename |-> "about.html", generator |-> "generate_about_page"],
    [filename |-> "services.html", generator |-> "generate_services_page"],
    [filename |-> "testimonials.html", generator |-> "generate_testimonials_page"],
    [filename |-> "faqs.html", generator |-> "generate_faq_page"],
    [filename |-> "help.html", generator |-> "generate_help_articles_page"],
    [filename |-> "contact.html", generator |-> "generate_contact_page"]>>

\* the locals of the entry point when the script starts: next is the position
\* of the loop in page_generators, log what the loop printed for each
\* generator, deleted the files line 1261 printed as deleted
MainLocals ==
  [pc |-> "start", next |-> 1, running |-> FALSE, log |-> <<>>, any_success |-> FALSE,
   nojekyll |-> FALSE, deleted |-> <<>>]

\* the start of a script that leaves the page files of an earlier run in place
MainStart_keeps_pages ==
  /\ main.pc = "start"
  /\ IF ~fs.schemas
       THEN main' = [main EXCEPT !.pc = "exit"]
       ELSE main' = [main EXCEPT !.pc = "loop", !.nojekyll = TRUE]
  /\ UNCHANGED <<call, ret, fs, contact, about, pages>>

\* lines 1247-1261: sys.exit(1) without a schemas directory; else .nojekyll is
\* created and every page file of an earlier run is deleted
MainStart ==
  /\ main.pc = "start"
  /\ IF ~fs.schemas
       THEN main' = [main EXCEPT !.pc = "exit"] /\ UNCHANGED pages
       ELSE /\ main' = [main EXCEPT !.pc = "loop", !.nojekyll = TRUE,
                                    !.deleted = SelectSeq(html_files, LAMBDA f : f \in DOMAIN pages)]
            /\ pages' = [f \in DOMAIN pages \ Range(html_files) |-> pages[f]]
  /\ UNCHANGED <<call, ret, fs, contact, about>>

\* line 1277: ok = generator(), the call of the next generator
MainInvoke ==
  /\ main.pc = "loop"
  /\ ~main.running
  /\ main.next <= Len(page_generators)
  /\ LET generator == page_generators[main.next].generator
     IN /\ call' = [fn |-> generator]
        /\ contact' = IF generator = "generate_contact_page" THEN ContactLocals ELSE contact
        /\ about' = IF generator = "generate_about_page" THEN AboutLocals ELSE about
  /\ ret' = Pending
  /\ main' = [main EXCEPT !.running = TRUE]
  /\ UNCHANGED <<fs, pages>>

\* how the called generator ended: it returned a true value ("ok") or False
\* ("skipped"), it raised ("failed"), or it has not ended yet ("running")
GeneratorOutcome ==
  CASE call.fn = "generate_contact_page" ->
         IF contact.pc = "done" THEN "ok" ELSE IF contact.pc = "raised" THEN "failed" ELSE "running"
    [] call.fn = "generate_about_page" ->
         IF about.pc = "done" THEN "ok" ELSE IF about.pc = "raised" THEN "failed" ELSE "running"
    [] OTHER ->
         IF ret = Pending THEN "running"
         ELSE IF IsRaise(ret) THEN "failed"
         ELSE IF Truthy(ret) THEN "ok" ELSE "skipped"

\* a loop whose try has no except: the exception of a generator ends the run
AfterGenerator_uncaught(m, outcome) ==
  IF outcome = "failed" THEN [m EXCEPT !.running = FALSE, !.pc = "exit"]
  ELSE [m EXCEPT !.running = FALSE,
                 !.next = @ + 1,
                 !.log = Append(@, [filename |-> page_generators[m.next].filename,
                                    outcome |-> outcome]),
                 !.any_success = @ \/ outcome = "ok"]

\* lines 1276-1284: the outcome is printed, whatever it is, and the loop goes on
AfterGenerator(m, outcome) ==
  [m EXCEPT !.running = FALSE,
            !.next = @ + 1,
            !.log = Append(@, [filename |-> page_generators[m.next].filename,
                               outcome |-> outcome]),
            !.any_success = @ \/ outcome = "ok"]

\* lines 1277-1284: the generator returns or raises into the loop
MainReturn ==
  /\ main.pc = "loop"
  /\ main.running
  /\ GeneratorOutcome # "running"
  /\ main' = AfterGenerator(main, GeneratorOutcome)
  /\ UNCHANGED <<call, ret, fs, contact, about, pages>>

\* lines 1286-1289: the loop is over
MainFinish ==
  /\ main.pc = "loop"
  /\ ~main.running
  /\ main.next > Len(page_generators)
  /\ main' = [main EXCEPT !.pc = "end"]
  /\ UNCHANGED <<call, ret, fs, contact, about, pages>>

\* ------------------------------------------------------------ bounds

\* at most this many top-level scalar keys in a record passed to _alias_get
MaxKeys == 2

\* at most this many entries in an opening-hours specification list
MaxHoursEntries == 2

\* at most this many files in the locations directory
MaxLocFiles == 2

\* at most this many files in schemas/organization
MaxOrgFiles == 2

\* at most this many organization records given to one merge
MaxOrgRecords == 2

\* at most this many runs of the merge over the same records
MaxRuns == 2
MaxPageFiles == 2

\* ------------------------------------------------------------ _alias_get calls

SeqSet(seq) == {seq[i] : i \in DOMAIN seq}

CanonKeys == DOMAIN FIELD_ALIASES

\* every top-level key _alias_get reads for canon_key (nested objects apart)
LookupKeys(canon_key) == {canon_key} \cup SeqSet(AliasesOf(canon_key))

AliasScalars ==
  {PyNone, PyStr(<<>>), PyStr(<<"a">>), PyStr(<<"b">>), PyInt(0), PyFloat(0), PyInt(7)}

GeoScalars == {PyNone, PyStr(<<>>), PyInt(0), PyFloat(0), PyInt(7)}

ContactPointScalars == {PyStr(<<>>), PyStr(<<"c">>), PyStr(<<"e">>)}

\* the dicts over any subset of keys, values drawn from vals
DictsOver(keys, vals) == UNION {[K -> vals] : K \in SUBSET keys}

\* the values a record may hold under "geo"
GeoValues(canon_key) ==
  {PyStr(<<"a">>)} \cup {PyDict(g) : g \in DictsOver({canon_key}, GeoScalars)}

\* the values a record may hold under "contactPoint" / "contact_point"
ContactPointValues(canon_key) ==
  {PyDict(c) : c \in DictsOver(IF canon_key = "phone" THEN {"telephone", "phone"} ELSE {"email"},
                               ContactPointScalars)}

\* the nested part of a record: nothing, or the sub-object _alias_get reads
NestedParts(canon_key) ==
  {EmptyDict}
  \cup (IF canon_key \in {"latitude", "longitude"}
          THEN {[k \in {"geo"} |-> g] : g \in GeoValues(canon_key)}
          ELSE {})
  \cup (IF canon_key \in {"phone", "email"}
          THEN {[k \in {nk} |-> c] :
                  nk \in {"contactPoint", "contact_point"}, c \in ContactPointValues(canon_key)}
               \cup {[k \in {"contactPoint", "contact_point"} |->
                        IF k = "contactPoint" THEN PyDict(EmptyDict) ELSE c] :
                      c \in ContactPointValues(canon_key)}
          ELSE {})

\* the key sets of the top-level part of a record read for canon_key
TopKeySets(canon_key) ==
  {S \in SUBSET LookupKeys(canon_key) : Cardinality(S) <= MaxKeys}

InitAlias ==
  /\ \E k \in CanonKeys : \E K \in TopKeySets(k) :
       \E top \in [K -> AliasScalars] : \E nested \in NestedParts(k) :
         call = [fn |-> "_alias_get", d |-> PyDict(top @@ nested), canon_key |-> k]
  /\ ret = Pending
  /\ GeneratorsIdle

\* the call of _alias_get runs and returns
AliasGet ==
  /\ call.fn = "_alias_get"
  /\ ret = Pending
  /\ ret' = _alias_get(call.d, call.canon_key)
  /\ UNCHANGED <<call, generators>>

NextAlias == AliasGet

SpecAlias == InitAlias /\ [][NextAlias]_vars

\* ------------------------------------------------------------ _alias_get properties

\* a value that is not None, "", [] or {}
NonEmptyValue(v) == v \notin {PyNone, PyStr(<<>>), PyList(<<>>), PyDict(EmptyDict)}

\* nothing, or the empty string
BlankValue(v) == v \in {PyNone, PyStr(<<>>)}

AliasDone == call.fn = "_alias_get" /\ ret # Pending

\* record d holds key k with a non-empty value
HoldsNonEmpty(d, k) == k \in DOMAIN d /\ NonEmptyValue(d[k])

\* record d holds nothing, or only a blank, under key k
HoldsBlank(d, k) == k \notin DOMAIN d \/ BlankValue(d[k])

\* C1: when the record holds the canonical key itself with a non-empty value,
\* _alias_get returns exactly that value, whatever the alias keys and the
\* nested sub-objects hold.
C1_CanonicalKeyWins ==
  (AliasDone /\ HoldsNonEmpty(call.d.d, call.canon_key))
    => ret = call.d.d[call.canon_key]

\* C1 witness: the canonical key and another alias key hold different
\* non-empty values and the canonical one was returned.
C1_Witness ==
  /\ AliasDone
  /\ HoldsNonEmpty(call.d.d, call.canon_key)
  /\ \E a \in SeqSet(AliasesOf(call.canon_key)) \ {call.canon_key} :
       /\ HoldsNonEmpty(call.d.d, a)
       /\ call.d.d[a] # call.d.d[call.canon_key]
  /\ ret = call.d.d[call.canon_key]

\* the alias keys of the call's field that the record holds with a non-empty value
NonEmptyAliases == {a \in SeqSet(AliasesOf(call.canon_key)) : HoldsNonEmpty(call.d.d, a)}

\* C2: when the canonical key is absent and exactly one key of the field's
\* alias list is present with a non-empty value, _alias_get returns that
\* alias's value.
C2_SingleAliasReturned ==
  (AliasDone /\ call.canon_key \notin DOMAIN call.d.d /\ Cardinality(NonEmptyAliases) = 1)
    => \A a \in NonEmptyAliases : ret = call.d.d[a]

\* C2 witness: the canonical key is absent, one alias holds an empty string,
\* a later alias holds the only non-empty value, and that value was returned.
C2_Witness ==
  /\ AliasDone
  /\ call.canon_key \notin DOMAIN call.d.d
  /\ Cardinality(NonEmptyAliases) = 1
  /\ \E i, j \in DOMAIN AliasesOf(call.canon_key) :
       /\ i < j
       /\ AliasesOf(call.canon_key)[i] \in DOMAIN call.d.d
       /\ call.d.d[AliasesOf(call.canon_key)[i]] = PyStr(<<>>)
       /\ AliasesOf(call.canon_key)[j] \in NonEmptyAliases
       /\ ret = call.d.d[AliasesOf(call.canon_key)[j]]

\* numeric zero: 0 or 0.0
IsZero(v) == v \in {PyInt(0), PyFloat(0)}

\* no top-level place read before alias position i holds a non-empty value
NothingBefore(d, canon_key, i) ==
  /\ ~HoldsNonEmpty(d, canon_key)
  /\ \A j \in 1..(i - 1) : ~HoldsNonEmpty(d, AliasesOf(canon_key)[j])

\* C3: a latitude or longitude of numeric zero is returned as provided (0 stays
\* 0, 0.0 stays 0.0), whether it is stored under the canonical key, under an
\* alias key (nothing non-empty before it) or inside the nested geo object
\* (nothing non-empty at top level).
C3_ZeroIsPresent ==
  (AliasDone /\ call.canon_key \in {"latitude", "longitude"}) =>
    LET d == call.d.d
        k == call.canon_key
        keys == AliasesOf(k)
    IN /\ (k \in DOMAIN d /\ IsZero(d[k])) => ret = d[k]
       /\ \A i \in DOMAIN keys :
            (keys[i] \in DOMAIN d /\ IsZero(d[keys[i]]) /\ NothingBefore(d, k, i))
              => ret = d[keys[i]]
       /\ ("geo" \in DOMAIN d /\ IsDict(d["geo"]) /\ k \in DOMAIN d["geo"].d
             /\ IsZero(d["geo"].d[k]) /\ NothingBefore(d, k, Len(keys) + 1))
            => ret = d["geo"].d[k]

\* C3 witness: the float zero stored under the canonical key, with a non-zero
\* number under an alias key, was returned as the float zero.
C3_Witness ==
  /\ AliasDone
  /\ call.canon_key = "latitude"
  /\ "latitude" \in DOMAIN call.d.d
  /\ call.d.d["latitude"] = PyFloat(0)
  /\ "lat" \in DOMAIN call.d.d
  /\ call.d.d["lat"] = PyInt(7)
  /\ ret = PyFloat(0)

\* a nested object (geo, contactPoint, contact_point) under key nk that yields
\* nothing for the fields in inner: absent, blank, or a dict holding blanks there
NestedBlank(d, nk, inner) ==
  \/ HoldsBlank(d, nk)
  \/ /\ IsDict(d[nk])
     /\ \A f \in inner : HoldsBlank(d[nk].d, f)

\* every place _alias_get looks for the call's field holds nothing or ""
AllPlacesBlank ==
  LET d == call.d.d
      k == call.canon_key
  IN /\ \A a \in LookupKeys(k) : HoldsBlank(d, a)
     /\ k \in {"latitude", "longitude"} => NestedBlank(d, "geo", {k})
     /\ k = "phone" => /\ NestedBlank(d, "contactPoint", {"telephone", "phone"})
                       /\ NestedBlank(d, "contact_point", {"telephone", "phone"})
     /\ k = "email" => /\ NestedBlank(d, "contactPoint", {"email"})
                       /\ NestedBlank(d, "contact_point", {"email"})

C4_WitnessNestedEmptyString ==
  /\ AliasDone
  /\ AllPlacesBlank
  /\ call.canon_key = "phone"
  /\ "contactPoint" \in DOMAIN call.d.d
  /\ IsDict(call.d.d["contactPoint"])
  /\ ret = PyStr(<<>>)

\* ------------------------------------------------------------ _format_address calls

\* flat address strings: empty, blank, trimmed, and with surrounding whitespace
AddressStrings ==
  {<<>>, <<" ">>, <<"1", " ", "M">>, <<" ", "1", " ", "M">>, <<"1", " ", "M", " ">>,
   <<"\t", "M", "\n">>}

\* what the sub-fields of a nested address object, and the loose top-level
\* address fields, may hold
AddressPartValues == {PyStr(<<"x">>), PyStr(<<>>)}

AddressObjectKeys == {"streetAddress", "address2", "addressLocality", "addressRegion", "postalCode"}

LooseAddressKeys == {"street", "suite", "city", "state", "zip"}

\* an address that is neither a string nor an object
OtherAddressValues == {PyNone, PyInt(3), PyList(<<PyStr(<<"z">>)>>)}

InitAddress ==
  /\ \E K \in SUBSET LooseAddressKeys : \E loc \in [K -> {PyStr(<<"y">>), PyInt(7)}] :
       \/ \E str \in AddressStrings :
            call = [fn |-> "_format_address", addr |-> PyStr(str), loc |-> loc]
       \/ \E A \in SUBSET AddressObjectKeys : \E a \in [A -> AddressPartValues] :
            call = [fn |-> "_format_address", addr |-> PyDict(a), loc |-> loc]
       \/ \E other \in OtherAddressValues :
            call = [fn |-> "_format_address", addr |-> other, loc |-> loc]
  /\ ret = Pending
  /\ GeneratorsIdle

\* the call of _format_address runs and returns
FormatAddress ==
  /\ call.fn = "_format_address"
  /\ ret = Pending
  /\ ret' = PyStr(_format_address(call.addr, call.loc))
  /\ UNCHANGED <<call, generators>>

NextAddress == FormatAddress

SpecAddress == InitAddress /\ [][NextAddress]_vars

AddressDone == call.fn = "_format_address" /\ ret # Pending

\* s has no whitespace at either end
Trimmed(s) == s = <<>> \/ (s[1] \notin Whitespace /\ s[Len(s)] \notin Whitespace)

\* s holds a character that is not whitespace
HasNonWhitespace(s) == \E i \in DOMAIN s : s[i] \notin Whitespace

\* C5 as stated: every non-empty flat address string s is returned unchanged.
C5_FlatStringUnchanged ==
  (AddressDone /\ IsStr(call.addr) /\ call.addr.s # <<>>) => ret = call.addr

\* C5 amended: a flat address string s holding a non-whitespace character is
\* returned with its surrounding whitespace removed, whatever the record's
\* other address fields hold; so a trimmed s is returned unchanged, and
\* composing the result again changes nothing.
C5_FlatStringTrimmed ==
  (AddressDone /\ IsStr(call.addr) /\ HasNonWhitespace(call.addr.s)) =>
    /\ IsStr(ret)
    /\ Trimmed(ret.s)
    /\ \E i, j \in DOMAIN call.addr.s : ret.s = SubSeq(call.addr.s, i, j)
    /\ \A i \in DOMAIN call.addr.s :
         call.addr.s[i] \notin Whitespace =>
           \E j \in DOMAIN ret.s : ret.s[j] = call.addr.s[i]
    /\ Trimmed(call.addr.s) => ret = call.addr

\* C5 witness: a trimmed flat string was returned unchanged although the
\* record also has loose city and state fields.
C5_Witness ==
  /\ AddressDone
  /\ call.addr = PyStr(<<"1", " ", "M">>)
  /\ {"city", "state"} \subseteq DOMAIN call.loc
  /\ ret = PyStr(<<"1", " ", "M">>)

\* the text of one address part: a string trimmed, a number written out
PartOf(rec, key) ==
  LET v == Get(rec, key)
  IN IF IsStr(v) THEN Strip(v.s) ELSE IF IsNum(v) THEN NumStr(v) ELSE <<>>

\* street, second line, city, state, postal code of the nested address object
ObjectParts(a) ==
  <<PartOf(a, "streetAddress"), PartOf(a, "address2"), PartOf(a, "addressLocality"),
    PartOf(a, "addressRegion"), PartOf(a, "postalCode")>>

\* ... and of the record's loose top-level fields
LooseParts(loc) ==
  <<PartOf(loc, "street"), PartOf(loc, "suite"), PartOf(loc, "city"),
    PartOf(loc, "state"), PartOf(loc, "zip")>>

\* the present texts of a list joined by single spaces
RECURSIVE SpaceJoined(_)
SpaceJoined(texts) ==
  IF texts = <<>> THEN <<>>
  ELSE IF Head(texts) = <<>> THEN SpaceJoined(Tail(texts))
  ELSE IF SpaceJoined(Tail(texts)) = <<>> THEN Head(texts)
  ELSE Head(texts) \o <<" ">> \o SpaceJoined(Tail(texts))

\* the line of the five parts p: "city, state" when both are present
PartsLine(p) ==
  SpaceJoined(<<p[1], p[2],
                IF p[3] # <<>> /\ p[4] # <<>> THEN p[3] \o <<",", " ">> \o p[4] ELSE p[3] \o p[4],
                p[5]>>)

\* C17 as stated: a non-empty flat string is returned alone (trimmed); else a
\* nested object is composed from its own sub-fields only; the loose
\* top-level fields are used only when the address is neither.
C17_PriorityNonEmptyString ==
  AddressDone =>
    IF IsStr(call.addr) /\ call.addr.s # <<>> THEN ret = PyStr(Strip(call.addr.s))
    ELSE IF IsDict(call.addr) THEN ret = PyStr(PartsLine(ObjectParts(call.addr.d)))
    ELSE ret = PyStr(PartsLine(LooseParts(call.loc)))

\* C17 amended: a flat string holding a non-whitespace character is returned
\* alone (trimmed); else a nested object is composed from its own sub-fields
\* only, even when they yield nothing; the loose top-level fields are used
\* when the address is neither, a whitespace-only string included.
C17_PriorityNonBlankString ==
  AddressDone =>
    IF IsStr(call.addr) /\ HasNonWhitespace(call.addr.s) THEN ret = PyStr(Strip(call.addr.s))
    ELSE IF IsDict(call.addr) THEN ret = PyStr(PartsLine(ObjectParts(call.addr.d)))
    ELSE ret = PyStr(PartsLine(LooseParts(call.loc)))

\* C17 witness: the nested object gives only a street and the record has
\* loose street, city and state fields; the street of the object is returned.
C17_Witness ==
  /\ AddressDone
  /\ IsDict(call.addr)
  /\ ObjectParts(call.addr.d) = <<<<"x">>, <<>>, <<>>, <<>>, <<>>>>
  /\ {"street", "city", "state"} \subseteq DOMAIN call.loc
  /\ ret = PyStr(<<"x">>)

\* the call composes the address from parts: those of the nested object, or
\* the loose fields of the record
ComposedParts ==
  IF IsDict(call.addr) THEN ObjectParts(call.addr.d) ELSE LooseParts(call.loc)

\* C18: an address composed from parts is the present parts in order joined
\* by single spaces, city and state as "city, state" when both are present;
\* it has no separator at either end, no comma unless city and state are both
\* present, no two consecutive spaces, and is empty when no part is present.
C18_PartsJoined ==
  (AddressDone /\ ~(IsStr(call.addr) /\ HasNonWhitespace(call.addr.s))) =>
    LET p == ComposedParts
    IN /\ IsStr(ret)
       /\ ret.s = PartsLine(p)
       /\ ret.s # <<>> => ret.s[1] \notin {" ", ","} /\ ret.s[Len(ret.s)] \notin {" ", ","}
       /\ (\E i \in DOMAIN ret.s : ret.s[i] = ",") => (p[3] # <<>> /\ p[4] # <<>>)
       /\ \A i \in 1..(Len(ret.s) - 1) : ~(ret.s[i] = " " /\ ret.s[i + 1] = " ")
       /\ (\A i \in DOMAIN p : p[i] = <<>>) <=> ret.s = <<>>

\* C18 witness: street, city and state are present, second line and postal
\* code are not; the line is "x x, x".
C18_Witness ==
  /\ AddressDone
  /\ IsDict(call.addr)
  /\ ObjectParts(call.addr.d) = <<<<"x">>, <<>>, <<"x">>, <<"x">>, <<>>>>
  /\ ret = PyStr(<<"x", " ", "x", ",", " ", "x">>)

\* C18 witness of a lone state: no comma is left next to the missing city.
C18_WitnessLoneState ==
  /\ AddressDone
  /\ ~IsDict(call.addr)
  /\ LooseParts(call.loc) = <<<<"y">>, <<>>, <<>>, <<"7">>, <<"y">>>>
  /\ ret = PyStr(<<"y", " ", "7", " ", "y">>)

\* ------------------------------------------------------------ _extract_hours calls

Monday == <<"M", "o", "n">>
Tuesday == <<"T", "u", "e">>

\* the day of an entry: absent, plain text, a schema.org-style URI, a URI
\* ending in a slash, or a list of days
HoursDayValues ==
  {PyNone, PyStr(Monday), PyStr(<<"s", ".", "o", "/">> \o Tuesday), PyStr(Monday \o <<"/">>),
   PyList(<<PyStr(Monday), PyStr(Tuesday)>>)}

HoursOpenValues == {PyNone, PyStr(<<"9">>)}
HoursCloseValues == {PyNone, PyStr(<<>>), PyStr(<<"5">>)}

\* the entries of a specification list: day/open/close dicts, and a non-dict
HoursEntries ==
  {PyStr(<<"x">>)}
  \cup {PyDict([dayOfWeek |-> d, opens |-> o, closes |-> c]) :
          d \in HoursDayValues, o \in HoursOpenValues, c \in HoursCloseValues}

\* the flat hours string of a record: absent, empty, whitespace only, or given
\* (untrimmed)
FlatHoursValues == {PyNone, PyStr(<<>>), PyStr(<<" ">>), PyStr(<<" ", "9", "-", "5">>)}

\* the hours string under the alias key openingHours
AliasHoursValues == {PyNone, PyStr(<<"8", "-", "4">>)}

InitHours ==
  /\ \E n \in 0..MaxHoursEntries : \E xs \in [1..n -> HoursEntries] :
       \E flat \in FlatHoursValues : \E alias \in AliasHoursValues :
         call = [fn |-> "_extract_hours",
                 loc |-> [hours |-> flat, openingHours |-> alias,
                          openingHoursSpecification |-> PyList(xs)]]
  /\ ret = Pending
  /\ GeneratorsIdle

\* the call of _extract_hours runs and returns
ExtractHours ==
  /\ call.fn = "_extract_hours"
  /\ ret = Pending
  /\ ret' = PyStr(_extract_hours(call.loc))
  /\ UNCHANGED <<call, generators>>

NextHours == ExtractHours

SpecHours == InitHours /\ [][NextHours]_vars

HoursDone == call.fn = "_extract_hours" /\ ret # Pending

\* the record of the call has no flat hours string under any hours key
NoFlatHours ==
  \A k \in LookupKeys("hours") :
    k \notin DOMAIN call.loc \/ ~IsStr(call.loc[k]) \/ call.loc[k].s = <<>>

\* the text of a value: a string as it is, anything else none
TextOf(v) == IF IsStr(v) THEN v.s ELSE <<>>

\* the day of an entry as the specification describes it: the text of its day
\* value, the first element when the value is a list, reduced to what follows
\* the last slash
ClaimedDay(e) ==
  LET v == Get(e, "dayOfWeek")
      text == IF IsList(v) /\ v.xs # <<>> THEN TextOf(v.xs[1]) ELSE TextOf(v)
  IN IF \E i \in DOMAIN text : text[i] = "/"
       THEN SubSeq(text, (CHOOSE i \in DOMAIN text :
                            text[i] = "/" /\ \A j \in DOMAIN text : j > i => text[j] # "/") + 1,
                   Len(text))
       ELSE text

\* the entry has a day: its day, reduced as above, is not empty
HasDay(e) == ClaimedDay(e) # <<>>

\* the entry has an opening or a closing time
HasTime(e) == TextOf(Get(e, "opens")) # <<>> \/ TextOf(Get(e, "closes")) # <<>>

\* "<Day>: <opens or em dash> - <closes or em dash>" (the middle dash an en dash)
ClaimedRow(e) ==
  ClaimedDay(e) \o <<":", " ">>
    \o (IF TextOf(Get(e, "opens")) # <<>> THEN TextOf(Get(e, "opens")) ELSE <<EmDash>>)
    \o <<" ", EnDash, " ">>
    \o (IF TextOf(Get(e, "closes")) # <<>> THEN TextOf(Get(e, "closes")) ELSE <<EmDash>>)

\* the renderings, in list order, of the entries that have a day and a time
RECURSIVE ClaimedRows(_)
ClaimedRows(xs) ==
  IF xs = <<>> THEN <<>>
  ELSE (IF IsDict(Head(xs)) /\ HasDay(Head(xs).d) /\ HasTime(Head(xs).d)
          THEN <<ClaimedRow(Head(xs).d)>> ELSE <<>>)
       \o ClaimedRows(Tail(xs))

\* C8: with no flat hours string, _extract_hours returns the "; "-joined
\* renderings, in list order, of exactly the entries of the specification
\* list that have a day and at least one of open/close time.
C8_HoursFromSpecification ==
  (HoursDone /\ NoFlatHours) =>
    ret = PyStr(Join(<<";", " ">>, ClaimedRows(call.loc["openingHoursSpecification"].xs)))

\* What holds of the code: the statement of C8 for the lists in which no
\* entry gives its day as a list.
ExtractHoursOnTextDays ==
  (HoursDone /\ NoFlatHours
     /\ \A i \in DOMAIN call.loc["openingHoursSpecification"].xs :
          LET e == call.loc["openingHoursSpecification"].xs[i]
          IN IsDict(e) => ~IsList(Get(e.d, "dayOfWeek")))
    => ret = PyStr(Join(<<";", " ">>, ClaimedRows(call.loc["openingHoursSpecification"].xs)))

\* C19: with no flat hours string, a one-entry specification list whose entry
\* gives its day as a non-empty list of day names, with an opening and a
\* closing time, renders as "<first day>: <opens> - <closes>" (an en dash).
C19_ListDayFirstElement ==
  (HoursDone /\ NoFlatHours) =>
    LET xs == call.loc["openingHoursSpecification"].xs
    IN (/\ Len(xs) = 1
        /\ IsDict(xs[1])
        /\ IsList(Get(xs[1].d, "dayOfWeek"))
        /\ Get(xs[1].d, "dayOfWeek").xs # <<>>
        /\ TextOf(Get(xs[1].d, "opens")) # <<>>
        /\ TextOf(Get(xs[1].d, "closes")) # <<>>)
       => ret = PyStr(TextOf(Get(xs[1].d, "dayOfWeek").xs[1]) \o <<":", " ">>
                        \o TextOf(Get(xs[1].d, "opens")) \o <<" ", EnDash, " ">>
                        \o TextOf(Get(xs[1].d, "closes")))

\* the hours keys in the order the alias resolver tries them
HoursKeys == <<"hours">> \o AliasesOf("hours")

\* the texts, in that order, of the hours keys that hold a string satisfying Given
FlatTexts(loc, Given(_)) ==
  LET held == SelectSeq(HoursKeys, LAMBDA k : k \in DOMAIN loc /\ IsStr(loc[k]) /\ Given(loc[k].s))
  IN [i \in DOMAIN held |-> loc[held[i]].s]

\* what the structured list of the record yields
StructuredHours(loc) == Join(<<";", " ">>, HoursRows(loc["openingHoursSpecification"].xs))

\* C20: when the record has a string with a non-whitespace character under
\* hours or one of its aliases, the first such string, trimmed, is returned
\* and the specification list is ignored; otherwise the result is what the
\* specification list yields, and empty when it yields nothing.
C20_FlatStringPreferred ==
  HoursDone =>
    LET flats == FlatTexts(call.loc, HasNonWhitespace)
    IN IF flats # <<>> THEN ret = PyStr(Strip(flats[1]))
       ELSE ret = PyStr(StructuredHours(call.loc))

\* What holds of the code: the first non-empty string under hours or its
\* aliases decides alone; it is returned trimmed when it has a
\* non-whitespace character, and when it has none the specification list is
\* used, whatever a later alias holds.
ExtractHoursFirstPresentDecides ==
  HoursDone =>
    LET present == FlatTexts(call.loc, LAMBDA str : str # <<>>)
    IN IF present # <<>> /\ HasNonWhitespace(present[1]) THEN ret = PyStr(Strip(present[1]))
       ELSE ret = PyStr(StructuredHours(call.loc))

\* ------------------------------------------------------------ _guess_title calls

Service1 == <<"S", "e", "r", "v", "i", "c", "e", " ", "1">>
ServicesDir == SERVICES_DIR

\* what a services record may hold under `title`
TitleValues ==
  {PyNone, PyStr(<<>>), PyStr(Service1), PyStr(<<" ", "s", "e", "r", "v", "i", "c", "e", " ", "1", "2", " ">>), PyStr(<<"T", "a", "x", " ", "L", "a", "w">>),
   PyStr(<<"T", "B", "D">>), PyStr(<<"I", "t", "e", "m", "7">>), PyInt(7)}

\* what it may hold under `name`
NameValues == {PyNone, PyStr(<<"W", "i", "l", "l", "s">>), PyStr(<<"n", "/", "a">>)}

\* what it may hold under `keywords`
KeywordValues ==
  {PyNone, PyList(<<>>), PyList(<<PyStr(<<"t", "a", "x">>), PyStr(<<"l", "a", "w">>), PyStr(<<"x">>)>>),
   PyStr(<<"w", "i", "l", "l", "s", ",", " ", "t", "r", "u", "s", "t", "s">>), PyList(<<PyStr(<<"s", "e", "r", "v", "i", "c", "e", " ", "1">>)>>), PyList(<<PyStr(<<"t", "b", "d">>)>>)}

\* the names of the files of the services directory
ServiceFileNames ==
  {<<"t", "a", "x", "-", "l", "a", "w", ".", "j", "s", "o", "n">>, <<"s", "e", "r", "v", "i", "c", "e", "-", "1", ".", "j", "s", "o", "n">>, <<"s", "e", "r", "v", "i", "c", "e", "_", "2", ".", "y", "a", "m", "l">>, <<"-", "-", "-", ".", "j", "s", "o", "n">>, <<"u", "n", "t", "i", "t", "l", "e", "d", ".", "y", "m", "l">>,
   <<".", "j", "s", "o", "n">>, <<"a", ".", "b", ".", "j", "s", "o", "n">>}

InitTitle ==
  /\ \E t \in TitleValues : \E n \in NameValues : \E k \in KeywordValues :
       \E f \in ServiceFileNames :
         call = [fn |-> "_guess_title",
                 obj |-> [title |-> t, name |-> n, keywords |-> k],
                 filename |-> ServicesDir \o f]
  /\ ret = Pending
  /\ GeneratorsIdle

\* the call of _guess_title runs and returns
GuessTitle ==
  /\ call.fn = "_guess_title"
  /\ ret = Pending
  /\ ret' = PyStr(_guess_title(call.obj, call.filename))
  /\ UNCHANGED <<call, generators>>

NextTitle == GuessTitle

SpecTitle == InitTitle /\ [][NextTitle]_vars

TitleDone == call.fn = "_guess_title" /\ ret # Pending

\* C7: for a services record whose title is the literal "Service 1", whatever
\* its other fields and its file name, the placeholder guard classifies the
\* title as a placeholder and the final title is not "Service 1".
C7_Service1Replaced ==
  (TitleDone /\ call.obj["title"] = PyStr(Service1)) =>
    /\ _is_placeholder_title(call.obj["title"])
    /\ ret # PyStr(Service1)

\* What holds of the code: "Service 1" is classified as a placeholder, and the
\* final title differs from it unless the title derived from the file name is
\* "Service 1" again and no keyword gives a better one.
GuessTitleOfService1 ==
  (TitleDone /\ call.obj["title"] = PyStr(Service1)) =>
    /\ _is_placeholder_title(call.obj["title"])
    /\ ret = PyStr(Service1) =>
         Lower(SplitextRoot(Basename(call.filename))) \in {<<"s", "e", "r", "v", "i", "c", "e", "-", "1">>, <<"s", "e", "r", "v", "i", "c", "e", "_", "1">>, <<"s", "e", "r", "v", "i", "c", "e", " ", "1">>}

\* the record has no title-like field and no keyword
NoTitleNoKeywords ==
  /\ _first_nonempty(<<call.obj["title"], call.obj["name"]>>) = <<>>
  /\ _as_list(call.obj["keywords"]) = <<>>

\* C23: the final title computed for a service is never the empty string, for
\* every record and every source file name, including records with no
\* title-like field and no keywords and file names made only of hyphens and
\* underscores.
C23_TitleNeverEmpty ==
  TitleDone =>
    /\ IsStr(ret)
    /\ ret.s # <<>>
    /\ Strip(ret.s) = ret.s

\* a record with no title-like field and no keyword, in a file named ---.json:
\* the last resort "Service" is the title
C23_Witness ==
  /\ TitleDone
  /\ NoTitleNoKeywords
  /\ call.filename = ServicesDir \o <<"-", "-", "-", ".", "j", "s", "o", "n">>
  /\ ret = PyStr(<<"S", "e", "r", "v", "i", "c", "e">>)

\* C24: the final title rendered for a service is never a placeholder value:
\* the title returned by _guess_title is not classified as a placeholder by
\* _is_placeholder_title; it is never "Service", "Untitled", "N/A", "TBD" or
\* of the form "Service <n>", "Item <n>", "Entry <n>".
C24_TitleNeverPlaceholder ==
  TitleDone => ~_is_placeholder_title(ret)

\* What holds of the code: the final title is a placeholder only when neither
\* the title-like fields nor the keywords give a better one and the file name
\* gives a placeholder too; it is then the title of the file name, or
\* "Service" when the file name gives none.
GuessTitlePlaceholderOnlyFromFileName ==
  (TitleDone /\ _is_placeholder_title(ret)) =>
    LET from_file == _title_from_filename(call.filename)
    IN /\ _is_placeholder_title(PyStr(from_file))
       /\ ret.s = IF from_file # <<>> THEN from_file ELSE <<"S", "e", "r", "v", "i", "c", "e">>
       /\ _is_placeholder_title(PyStr(_first_nonempty(<<call.obj["title"], call.obj["name"]>>)))

\* ------------------------------------------------------------ contact page runs

\* location records: Loc1 and Loc2 differ in key names, letter case, surrounding
\* whitespace and phone punctuation only; Loc3 adds a contact person to Loc1;
\* Loc4 adds coordinates (another map URL); Loc5 is another entity; Loc6 has
\* no entity name
Loc1 == [name |-> PyStr(<<"A", "b">>), phone |-> PyStr(<<"5", "-", "1">>), email |-> PyStr(<<"e", "@", "x">>),
         address |-> PyStr(<<"1", " ", "M">>)]
Loc2 == [organization |-> PyStr(<<" ", "A", "B">>), telephone |-> PyStr(<<"(", "5", ")", " ", "1">>),
         email |-> PyStr(<<"E", "@", "X", " ">>), address |-> PyStr(<<"1", " ", "m", " ">>)]
Loc3 == [name |-> PyStr(<<"A", "b">>), phone |-> PyStr(<<"5", "-", "1">>), email |-> PyStr(<<"e", "@", "x">>),
         address |-> PyStr(<<"1", " ", "M">>), contact_person |-> PyStr(<<"P", "a", "t">>)]
Loc4 == [name |-> PyStr(<<"A", "b">>), phone |-> PyStr(<<"5", "-", "1">>), email |-> PyStr(<<"e", "@", "x">>),
         address |-> PyStr(<<"1", " ", "M">>), latitude |-> PyInt(0), longitude |-> PyFloat(7)]
Loc5 == [name |-> PyStr(<<"C", "d">>), contactPoint |-> PyDict([telephone |-> PyStr(<<"7">>)])]
Loc6 == [contact |-> PyStr(<<"P", "a", "t">>), mail |-> PyStr(<<"p", "@", "x">>)]

LocRecords == {Loc1, Loc2, Loc3, Loc4, Loc5, Loc6}

\* the contents of a locations file: one record, a list of records, a list
\* with a non-record in it, a {"locations": [...]} wrapper, nothing, garbage
LocDocs ==
  {PyDict(r) : r \in LocRecords}
  \cup {PyList(<<PyDict(Loc1), PyDict(b)>>) : b \in {Loc1, Loc2, Loc3}}
  \cup {PyList(<<PyStr(<<"x">>), PyDict(Loc1)>>),
        PyDict([locations |-> PyList(<<PyDict(Loc1), PyDict(Loc2)>>)]),
        EmptyFile, Unparsable}

LocFiles ==
  {[ext |-> "json", doc |-> d] : d \in LocDocs}
  \cup {[ext |-> "txt", doc |-> PyDict(Loc1)], [ext |-> "JSON", doc |-> PyDict(Loc1)]}

\* the organization directory as the page shell finds it: absent, holding one
\* organization file, or holding a file that loads to nothing
OrgDirsForPages ==
  {NoDir,
   Dir(<<[ext |-> "json", doc |-> PyDict([name |-> PyStr(<<"A", "c", "m", "e">>)])]>>),
   Dir(<<[ext |-> "json", doc |-> EmptyFile]>>)}

InitContact ==
  /\ call = [fn |-> "generate_contact_page"]
  /\ ret = Pending
  /\ \E n \in 0..MaxLocFiles : \E files \in [1..n -> LocFiles] :
       \E locations \in {NoDir, Dir(files)} : \E org \in OrgDirsForPages :
         fs = [present |-> TRUE,
               dirs |-> [d \in {"schemas/locations", "schemas/organization"} |->
                           IF d = "schemas/locations" THEN locations ELSE org],
               env_repo |-> PyNone]
  /\ contact = ContactLocals
  /\ about = Idle
  /\ pages = NoPages
  /\ main = Idle

NextContact ==
  \/ ContactStart
  \/ ContactNextFile
  \/ ContactRecord
  \/ ContactFinish

SpecContact == InitContact /\ [][NextContact]_vars

\* the scan is over: the page was written, or the write raised
ContactScanned ==
  /\ contact.pc \in {"done", "raised"}
  /\ DirAt(fs, "schemas/locations").exists

\* the mapping records of the locations directory, in file-then-list order
RECURSIVE RecordsOfFiles(_)
RecordsOfFiles(files) ==
  IF files = <<>> THEN <<>>
  ELSE (IF IsDataFile(Head(files))
          THEN SelectSeq(_normalize_records(PyList(load_data(Head(files)))), IsDict)
          ELSE <<>>)
       \o RecordsOfFiles(Tail(files))

LocationRecordsScanned == RecordsOfFiles(DirAt(fs, "schemas/locations").files)

\* lower-cased and trimmed; reduced to its digits
Normalized(str) == Lower(Strip(str))
DigitsOf(str) == SelectSeq(str, LAMBDA ch : ch \in Range(Digits))

\* records a and b have the same entity name, phone digits, email and composed address
SameFour(a, b) ==
  LET x == ExtractLocation(a.d)
      y == ExtractLocation(b.d)
  IN /\ Normalized(x.entity) = Normalized(y.entity)
     /\ DigitsOf(x.phone) = DigitsOf(y.phone)
     /\ Normalized(x.email) = Normalized(y.email)
     /\ Normalized(x.addr) = Normalized(y.addr)

\* ... and the same contact person and map URL
SameSix(a, b) ==
  LET x == ExtractLocation(a.d)
      y == ExtractLocation(b.d)
  IN /\ SameFour(a, b)
     /\ Normalized(x.person) = Normalized(y.person)
     /\ Normalized(x.map_src) = Normalized(y.map_src)

\* only the first of the two records has a card, and one duplicate is counted
\* (and reported, when the page was written)
OnlyFirstRendered(R) ==
  /\ contact.items = <<ExtractLocation(R[1].d)>>
  /\ contact.records_seen - contact.rendered = 1
  /\ contact.pc = "done" => contact.reported.deduped = 1

\* C6 as stated: of two location records with the same entity name, phone
\* digits, email and composed address (lower-cased, trimmed), in one file or
\* in two, only the first gets a card and exactly one duplicate is reported.
C6_SameFourSuppressed ==
  ContactScanned =>
    LET R == LocationRecordsScanned
    IN (Len(R) = 2 /\ SameFour(R[1], R[2])) => OnlyFirstRendered(R)

\* the cards of the records, from position i on, that agree in the six fields
\* with no earlier record
RECURSIVE FirstOccurrenceCards(_, _)
FirstOccurrenceCards(R, i) ==
  IF i > Len(R) THEN <<>>
  ELSE (IF \E h \in 1..(i - 1) : SameSix(R[h], R[i]) THEN <<>> ELSE <<ExtractLocation(R[i].d)>>)
       \o FirstOccurrenceCards(R, i + 1)

\* C6 amended: of two location records with the same entity name, contact
\* person, phone digits, email, composed address and map URL (lower-cased,
\* trimmed), in one file or in two, only the first gets a card and exactly one
\* duplicate is counted as suppressed, and reported once the page is written;
\* among any number of records, the cards are those of the records that agree
\* in these six fields with no earlier record, and every other record is
\* counted as a duplicate.
C6_SameSixSuppressed ==
  ContactScanned =>
    LET R == LocationRecordsScanned
    IN /\ (Len(R) = 2 /\ SameSix(R[1], R[2])) => OnlyFirstRendered(R)
       /\ contact.items = FirstOccurrenceCards(R, 1)
       /\ contact.records_seen - contact.rendered = Len(R) - Len(contact.items)

\* C6 witness: Loc1 and Loc2 sit in two different files, the page was written
\* with the card of Loc1 alone, and one duplicate was reported.
C6_Witness ==
  /\ contact.pc = "done"
  /\ Len(DirAt(fs, "schemas/locations").files) = 2
  /\ LocationRecordsScanned = <<PyDict(Loc1), PyDict(Loc2)>>
  /\ contact.items = <<ExtractLocation(Loc1)>>
  /\ contact.reported.deduped = 1
  /\ pages["contact.html"].body.cards = <<ExtractLocation(Loc1)>>

\* the location records of a list of files when a {"locations": [...]} mapping
\* stands for its list: the mappings of that list, of a bare list, or the
\* mapping itself
RECURSIVE UnwrappedRecords(_)
UnwrappedRecords(files) ==
  IF files = <<>> THEN <<>>
  ELSE LET f == Head(files)
           doc == f.doc
           recs == IF ~IsDataFile(f) \/ load_data(f) = <<>> THEN <<>>
                   ELSE IF IsDict(doc) /\ IsList(Get(doc.d, "locations"))
                     THEN doc.d["locations"].xs
                   ELSE load_data(f)
       IN SelectSeq(recs, IsDict) \o UnwrappedRecords(Tail(files))

\* C12: a locations file holding {"locations": [...]} is processed like a
\* file holding the bare list: each mapping of the list is counted and
\* processed as one location record, and the wrapping mapping is not.
C12_WrapperIsItsList ==
  ContactScanned =>
    LET R == UnwrappedRecords(DirAt(fs, "schemas/locations").files)
    IN /\ contact.records_seen = Len(R)
       /\ contact.items = FirstOccurrenceCards(R, 1)

\* What holds of the code: the statement of C12 when no file of the
\* directory is such a wrapping mapping.
ContactWithoutWrapper ==
  (ContactScanned
     /\ \A i \in DOMAIN DirAt(fs, "schemas/locations").files :
          LET doc == DirAt(fs, "schemas/locations").files[i].doc
          IN ~(IsDict(doc) /\ IsList(Get(doc.d, "locations"))))
    => LET R == UnwrappedRecords(DirAt(fs, "schemas/locations").files)
       IN /\ contact.records_seen = Len(R)
          /\ contact.items = FirstOccurrenceCards(R, 1)

\* the mapping records read so far: those of the files already opened, less
\* what is left of the current file
RecordsReadSoFar ==
  LET all == RecordsOfFiles(SubSeq(DirAt(fs, "schemas/locations").files, 1, contact.file))
  IN SubSeq(all, 1, Len(all) - Len(SelectSeq(contact.data, IsDict)))

\* the positions of the records of R whose signature an earlier record of R has
SeenBefore(R) ==
  {i \in DOMAIN R :
     \E h \in 1..(i - 1) :
       LocSignature(ExtractLocation(R[h].d)) = LocSignature(ExtractLocation(R[i].d))}

\* C27: throughout the contact-page scan the counters satisfy rendered =
\* number of emitted location cards = number of distinct signatures seen, and
\* rendered <= records scanned; at the end the reported duplicate count is
\* records scanned minus rendered, the number of mapping records whose
\* signature had already been seen.
C27_ContactCounters ==
  /\ contact.rendered = Len(contact.items)
  /\ contact.rendered = Cardinality(contact.seen)
  /\ contact.rendered <= contact.records_seen
  /\ contact.pc = "scan" =>
       /\ contact.records_seen = Len(RecordsReadSoFar)
       /\ contact.records_seen - contact.rendered = Cardinality(SeenBefore(RecordsReadSoFar))
  /\ (contact.pc = "done" /\ DirAt(fs, "schemas/locations").exists) =>
       /\ contact.reported.records = Len(LocationRecordsScanned)
       /\ contact.reported.rendered = Len(contact.items)
       /\ contact.reported.deduped = contact.reported.records - contact.reported.rendered
       /\ contact.reported.deduped = Cardinality(SeenBefore(LocationRecordsScanned))

\* three records were scanned, two cards were emitted and one duplicate was reported
C27_Witness ==
  /\ contact.pc = "done"
  /\ contact.reported # <<>>
  /\ contact.reported.records = 3
  /\ contact.reported.rendered = 2
  /\ contact.reported.deduped = 1
  /\ Len(pages["contact.html"].body.cards) = 2

\* entity name, contact person, phone, email, composed address and map URL of
\* a record, trimmed and lower-cased, the phone reduced to its digits
SixNormalized(r) ==
  LET x == ExtractLocation(r.d)
  IN <<Normalized(x.entity), Normalized(x.person), DigitsOf(x.phone),
       Normalized(x.email), Normalized(x.addr), Normalized(x.map_src)>>

\* C28: the location dedup signature is the tuple (entity name, contact
\* person, phone, email, composed address, map URL), every string trimmed and
\* lower-cased and the phone reduced to its digits: of two records that differ
\* only in letter case, surrounding whitespace or phone punctuation of these
\* fields the second is suppressed, and two records that differ in a
\* component after this normalization are both rendered.
C28_SignatureNormalized ==
  ContactScanned =>
    LET R == LocationRecordsScanned
    IN /\ contact.seen = {SixNormalized(R[i]) : i \in DOMAIN R}
       /\ Len(R) = 2 =>
            contact.items = IF SixNormalized(R[1]) = SixNormalized(R[2])
                              THEN <<ExtractLocation(R[1].d)>>
                              ELSE <<ExtractLocation(R[1].d), ExtractLocation(R[2].d)>>

\* Loc2, then Loc1 which differs from it in letter case, whitespace and phone
\* punctuation only: one signature, the card of Loc2 alone
C28_Witness ==
  /\ contact.pc = "done"
  /\ LocationRecordsScanned = <<PyDict(Loc2), PyDict(Loc1)>>
  /\ ExtractLocation(Loc1) # ExtractLocation(Loc2)
  /\ Cardinality(contact.seen) = 1
  /\ pages["contact.html"].body.cards = <<ExtractLocation(Loc2)>>

\* Loc1, then Loc4 which differs from it in the map URL only: both have a card
C28_WitnessBothRendered ==
  /\ contact.pc = "done"
  /\ LocationRecordsScanned = <<PyDict(Loc1), PyDict(Loc4)>>
  /\ Cardinality(contact.seen) = 2
  /\ pages["contact.html"].body.cards = <<ExtractLocation(Loc1), ExtractLocation(Loc4)>>

\* the first non-empty string of a sequence of strings, "" when there is none
FirstNonEmptyOf(strs) ==
  IF \E i \in DOMAIN strs : strs[i] # <<>>
    THEN strs[CHOOSE i \in DOMAIN strs : strs[i] # <<>> /\ \A h \in 1..(i - 1) : strs[h] = <<>>]
    ELSE <<>>

\* the Quick Contact fields are those of the rendered cards: the label of the
\* first card, the first phone and the first email
QuickContactOfRendered ==
  LET cards == contact.items
  IN /\ contact.quick_label =
          IF cards = <<>> THEN <<>>
          ELSE IF cards[1].person # <<>> THEN cards[1].person ELSE cards[1].entity
     /\ contact.quick_phone = FirstNonEmptyOf([i \in DOMAIN cards |-> cards[i].phone])
     /\ contact.quick_email = FirstNonEmptyOf([i \in DOMAIN cards |-> cards[i].email])
     /\ contact.pc = "done" =>
          pages["contact.html"].body.quick =
            <<contact.quick_label, contact.quick_phone, contact.quick_email>>

\* a step changes a Quick Contact field only from "" and only as it renders a card
QuickContactSetOnce ==
  /\ contact.quick_label # <<>> => contact'.quick_label = contact.quick_label
  /\ contact.quick_phone # <<>> => contact'.quick_phone = contact.quick_phone
  /\ contact.quick_email # <<>> => contact'.quick_email = contact.quick_email
  /\ <<contact'.quick_label, contact'.quick_phone, contact'.quick_email>>
       # <<contact.quick_label, contact.quick_phone, contact.quick_email>>
     => /\ Len(contact'.items) = Len(contact.items) + 1
        /\ SubSeq(contact'.items, 1, Len(contact.items)) = contact.items

\* C29: the Quick Contact fields of the contact page are set at most once each
\* and only from rendered location records: the label is the contact person,
\* else the entity name, of the first rendered record; the phone is the first
\* non-empty phone and the email the first non-empty email among the rendered
\* records in scan order; once set, none of the three is changed by a later record.
C29_QuickContactFromRendered ==
  []QuickContactOfRendered /\ [][QuickContactSetOnce]_vars

\* Loc6 (a contact person and an email, no phone), then Loc5 (a phone): the
\* label and the email are those of Loc6 and the phone is that of Loc5
C29_Witness ==
  /\ contact.pc = "done"
  /\ LocationRecordsScanned = <<PyDict(Loc6), PyDict(Loc5)>>
  /\ pages["contact.html"].body.quick = <<<<"P", "a", "t">>, <<"7">>, <<"p", "@", "x">>>>
  /\ Len(pages["contact.html"].body.cards) = 2

\* ------------------------------------------------------------ about page runs

Acme == [name |-> PyStr(<<"A", "c", "m", "e">>)]
AcmeSocial == [sameAs |-> PyList(<<PyStr(<<"h", "t", "t", "p", "s", ":", "/", "/", "x", ".", "c", "o", "m", "/", "a", "c", "m", "e">>)>>)]
\* a blank name, a numeric phone, a comma-separated social string
OrgBlank == [name |-> PyStr(<<" ", " ">>), brand |-> PyStr(<<"B", "q", " ">>), phone |-> PyInt(0),
             same_as |-> PyStr(<<"u", "1", ",", " ", "u", "2">>)]
\* a later record naming everything again, with two social lists
OrgZed == [name |-> PyStr(<<"Z", "e", "d">>), brand |-> PyStr(<<"Z", "q">>), phone |-> PyStr(<<"5">>),
           description |-> PyDict("@value" :> PyStr(<<"d">>)),
           social |-> PyList(<<PyStr(<<"u", "2">>), PyStr(<<"u", "1">>)>>),
           sameAs |-> PyList(<<PyStr(<<"u", "3">>)>>)]

OrgDocs ==
  {PyDict(Acme), PyDict(AcmeSocial), PyDict(OrgBlank), PyDict(OrgZed),
   PyList(<<PyDict(AcmeSocial), PyStr(<<"x">>), PyDict(Acme)>>),
   EmptyFile}

OrgFiles ==
  {[ext |-> "json", doc |-> d] : d \in OrgDocs} \cup {[ext |-> "md", doc |-> PyDict(OrgZed)]}

CompanyDirs == {NoDir, Dir(<<[ext |-> "yaml", doc |-> PyDict(OrgZed)]>>)}

ServicesDirs ==
  {NoDir, Dir(<<[ext |-> "json", doc |-> PyDict([title |-> PyStr(<<"T">>), name |-> PyStr(<<"S", "v", "c">>)])]>>)}

\* GITHUB_REPOSITORY: unset, owner/repo, owner/ with nothing after the slash
RepositoryValues == {PyNone, PyStr(<<"o", "/", "a", "c", "m", "e", "-", "l", "a", "w">>), PyStr(<<"o", "/">>)}

InitAbout ==
  /\ call = [fn |-> "generate_about_page"]
  /\ ret = Pending
  /\ \E n \in 0..MaxOrgFiles : \E files \in [1..n -> OrgFiles] :
       \E organization \in {NoDir, Dir(files)} : \E company \in CompanyDirs :
         \E services \in ServicesDirs : \E repo \in RepositoryValues :
           fs = [present |-> TRUE,
                 dirs |-> [d \in {"schemas/organization", "schemas/company", "schemas/services"} |->
                             CASE d = "schemas/organization" -> organization
                               [] d = "schemas/company" -> company
                               [] OTHER -> services],
                 env_repo |-> repo]
  /\ contact = Idle
  /\ about = AboutLocals
  /\ pages = NoPages
  /\ main = Idle

NextAbout ==
  \/ AboutLoadOrgs
  \/ AboutMergeScalar
  \/ AboutMergeSocials
  \/ AboutSiteName
  \/ AboutWrite

SpecAbout == InitAbout /\ [][NextAbout]_vars

\* the mapping records of a list of files, in file-then-list order
RECURSIVE MappingRecords(_)
MappingRecords(files) ==
  IF files = <<>> THEN <<>>
  ELSE LET f == Head(files)
           recs == IF f.ext \in {"json", "yaml", "yml"} /\ f.doc \notin {EmptyFile, Unparsable}
                     THEN IF IsList(f.doc) THEN f.doc.xs ELSE <<f.doc>>
                     ELSE <<>>
       IN SelectSeq(recs, IsDict) \o MappingRecords(Tail(files))

\* the organization records of the repository, directory by directory
OrgRecordsInOrder ==
  MappingRecords(DirAt(fs, "schemas/organization").files
                 \o DirAt(fs, "schemas/organizations").files
                 \o DirAt(fs, "schemas/company").files
                 \o DirAt(fs, "schemas/entity").files
                 \o DirAt(fs, "schemas/business").files)

\* the rounds of the scalar merge that are over
ScalarsDecided ==
  IF about.pc = "scalars" THEN 1..(about.key - 1)
  ELSE IF about.pc \in {"socials", "site_name", "write", "done", "raised"}
          /\ OrgRecordsInOrder # <<>>
    THEN DOMAIN scalar_order
  ELSE {}

\* the merge is over: scalars and social list
MergeOver == about.pc \in {"site_name", "write", "done", "raised"}

\* the organization directory holds {"name": "Acme"} then {"sameAs": [...]}, and
\* there is no other organization record
AcmeThenSocial ==
  /\ DirAt(fs, "schemas/organization").files
       = <<[ext |-> "json", doc |-> PyDict(Acme)], [ext |-> "json", doc |-> PyDict(AcmeSocial)]>>
  /\ ~DirAt(fs, "schemas/company").exists

\* C9: each scalar field of the merge is the value of the first record, in
\* file-then-list order, that has a non-empty value for it, whatever later
\* records hold, at every moment from the round that sets it on; a field no
\* record has a value for is not set; and {"name": "Acme"} in a first file
\* with {"sameAs": ["https://x.com/acme"]} in a second merge to name "Acme"
\* and the social list ["https://x.com/acme"].
C9_FirstNonEmptyWins ==
  LET R == OrgRecordsInOrder
      Has(i, k) == _first_nonempty(<<Get(R[i].d, k)>>) # <<>>
  IN /\ \A n \in ScalarsDecided :
          LET k == scalar_order[n]
              hits == {i \in DOMAIN R : Has(i, k)}
          IN IF hits = {} THEN k \notin DOMAIN about.merged
             ELSE /\ k \in DOMAIN about.merged
                  /\ about.merged[k]
                       = _first_nonempty(<<Get(R[CHOOSE i \in hits : \A j \in hits : i <= j].d, k)>>)
     /\ \A k \in DOMAIN about.merged : \E n \in ScalarsDecided : scalar_order[n] = k
     /\ (MergeOver /\ AcmeThenSocial) =>
          /\ about.merged = [k \in {"name"} |-> <<"A", "c", "m", "e">>]
          /\ about.sameAs_merged = <<<<"h", "t", "t", "p", "s", ":", "/", "/", "x", ".", "c", "o", "m", "/", "a", "c", "m", "e">>>>

\* C9 witness: the two files of the example were merged and the page written
C9_Witness ==
  /\ about.pc = "done"
  /\ AcmeThenSocial
  /\ about.merged["name"] = <<"A", "c", "m", "e">>
  /\ about.sameAs_merged = <<<<"h", "t", "t", "p", "s", ":", "/", "/", "x", ".", "c", "o", "m", "/", "a", "c", "m", "e">>>>
  /\ pages["about.html"].body.site_name = <<"A", "c", "m", "e">>
  /\ pages["about.html"].body.sameas = <<<<"h", "t", "t", "p", "s", ":", "/", "/", "x", ".", "c", "o", "m", "/", "a", "c", "m", "e">>>>

\* C10: when no organization directory holds an organization record, the
\* site-name step of the about page does not raise and the site name is a
\* non-empty string, whatever GITHUB_REPOSITORY is.
C10_NoOrgRecordFallsBack ==
  (about.pc \in {"write", "done", "raised"} /\ OrgRecordsInOrder = <<>>) =>
    /\ about.raised_at # "site_name"
    /\ about.site_name # <<>>

\* ------------------------------------------------------------ _merge_orgs runs

\* a record holding social links under three of the alias keys
OrgSocials == [name |-> PyStr(<<"A", "c", "m", "e">>),
               sameAs |-> PyList(<<PyStr(<<"u", "1">>)>>),
               social_links |-> PyList(<<PyStr(<<"u", "2">>), PyStr(<<"u", "1">>)>>),
               same_as |-> PyStr(<<"u", "3">>)]

\* a record whose links repeat one of OrgSocials, once in another letter case
OrgUpper == [social |-> PyList(<<PyStr(<<"U", "1">>), PyStr(<<"u", "4">>), PyStr(<<" ", "u", "1", " ">>), PyStr(<<" ">>)>>)]

MergeRecords == {Acme, AcmeSocial, OrgBlank, OrgZed, OrgSocials, OrgUpper}

\* the results of the runs so far
Runs(results) == [t |-> "runs", of |-> results]

InitMerge ==
  /\ \E n \in 0..MaxOrgRecords : \E recs \in [1..n -> MergeRecords] :
       call = [fn |-> "_merge_orgs", orgs |-> [i \in 1..n |-> PyDict(recs[i])]]
  /\ ret = Runs(<<>>)
  /\ GeneratorsIdle

\* one more run of _merge_orgs over the same records, in a process of its own:
\* the iteration order of the set list_keys is that process's
MergeOrgs ==
  /\ call.fn = "_merge_orgs"
  /\ Len(ret.of) < MaxRuns
  /\ \E order \in ListKeyOrders : ret' = Runs(Append(ret.of, _merge_orgs(call.orgs, order)))
  /\ UNCHANGED <<call, generators>>

NextMerge == MergeOrgs

SpecMerge == InitMerge /\ [][NextMerge]_vars

\* C11: any two runs of the merge over the same records in the same order
\* give the same scalar fields and the same social list, element order
\* included.
C11_MergeDeterministic ==
  call.fn = "_merge_orgs" =>
    \A i, j \in DOMAIN ret.of : ret.of[i] = ret.of[j]

\* What holds of the code: any two runs give the same scalar fields and the
\* same set of social links; and the same list when no record holds links
\* under more than one alias key.
MergeDeterministicUpToSocialOrder ==
  call.fn = "_merge_orgs" =>
    \A i, j \in DOMAIN ret.of :
      /\ ret.of[i].scalars = ret.of[j].scalars
      /\ Range(ret.of[i].sameAs_merged) = Range(ret.of[j].sameAs_merged)
      /\ (\A n \in DOMAIN call.orgs :
            Cardinality({k \in list_keys : _as_list(Get(call.orgs[n].d, k)) # <<>>}) <= 1)
           => ret.of[i] = ret.of[j]

\* the links record n holds under alias key k, in list order
LinksUnder(n, k) == _as_list(Get(call.orgs[n].d, k))

\* the links record n holds under any alias key
LinksOfRecord(n) == UNION {Range(LinksUnder(n, k)) : k \in list_keys}

\* the first record that holds the link
FirstRecordWith(link) ==
  CHOOSE n \in DOMAIN call.orgs :
    link \in LinksOfRecord(n) /\ \A h \in 1..(n - 1) : link \notin LinksOfRecord(h)

\* C22: the merged social-link list contains every non-empty link found under
\* any social alias key of any organization record, each exactly once
\* (compared case-sensitively: links differing only in letter case are both
\* kept), in order of first occurrence across the records and, for the links
\* a record holds under one alias key, in the order of that list.
C22_SocialLinksMerged ==
  call.fn = "_merge_orgs" =>
    \A r \in DOMAIN ret.of :
      LET merged == ret.of[r].sameAs_merged
      IN /\ Range(merged) = UNION {LinksOfRecord(n) : n \in DOMAIN call.orgs}
         /\ \A i, j \in DOMAIN merged : i # j => merged[i] # merged[j]
         /\ \A i, j \in DOMAIN merged :
              i < j => FirstRecordWith(merged[i]) <= FirstRecordWith(merged[j])
         /\ \A i, j \in DOMAIN merged : \A k \in list_keys :
              LET n == FirstRecordWith(merged[i])
                  here == LinksUnder(n, k)
              IN (/\ n = FirstRecordWith(merged[j])
                  /\ \A o \in list_keys \ {k} :
                       merged[i] \notin Range(LinksUnder(n, o)) /\ merged[j] \notin Range(LinksUnder(n, o))
                  /\ \E a, b \in DOMAIN here :
                       /\ here[a] = merged[i] /\ \A c \in 1..(a - 1) : here[c] # merged[i]
                       /\ here[b] = merged[j] /\ \A c \in 1..(b - 1) : here[c] # merged[j]
                       /\ a < b)
                   => i < j

\* a merge of OrgSocials and OrgUpper: u1 is kept once, U1 is kept beside it,
\* and the new links of the second record follow those of the first
C22_Witness ==
  /\ call.fn = "_merge_orgs"
  /\ call.orgs = <<PyDict(OrgSocials), PyDict(OrgUpper)>>
  /\ ret.of # <<>>
  /\ Len(ret.of[1].sameAs_merged) = 5
  /\ SubSeq(ret.of[1].sameAs_merged, 4, 5) = <<<<"U", "1">>, <<"u", "4">>>>

\* ------------------------------------------------------------ data page runs

\* what a data file may hold that is no mapping and no list of mappings
MalformedDocs == {EmptyFile, Unparsable, PyStr(<<"x">>), PyInt(0), PyList(<<PyInt(1)>>)}

SvcTax == [title |-> PyStr(<<"T", "a", "x", " ", "L", "a", "w">>), description |-> PyStr(<<"W", "e", " ", "<", "h", "e", "l", "p", ">", " ", "&", " ", "a", "d", "v", "i", "s", "e">>),
           price |-> PyInt(100), features |-> PyStr(<<"F", "a", "s", "t", ",", " ", "f", "a", "s", "t", ",", " ", "F", "a", "i", "r">>),
           featured |-> PyBool(TRUE)]
SvcWills == [name |-> PyStr(<<"S", "e", "r", "v", "i", "c", "e", " ", "1">>), keywords |-> PyStr(<<"w", "i", "l", "l", "s", ",", " ", "t", "r", "u", "s", "t", "s">>),
             slug |-> PyStr(<<"W", "i", "l", "l", "s", " ", "&", " ", "T", "r", "u", "s", "t", "s">>)]
SvcBare == [notes |-> PyStr(<<"x">>)]

\* the kinds of file of schemas/services
ServiceFileKinds ==
  {[ext |-> "json", doc |-> d] :
     d \in MalformedDocs \cup {PyDict(SvcTax), PyDict(SvcWills), PyDict(SvcBare),
                               PyList(<<PyDict(SvcTax), PyDict(SvcWills)>>),
                               PyDict([services |-> PyList(<<PyDict(SvcWills)>>)])}}
  \cup {[ext |-> "yaml", doc |-> PyDict(SvcTax)], [ext |-> "JSON", doc |-> PyDict(SvcTax)]}

RevAnn == [customer_name |-> PyStr(<<"A", "n", "n">>), review_body |-> PyStr(<<"G", "r", "e", "a", "t", " ", "<", "3">>),
           rating |-> PyStr(<<" ", "4", " ">>), entity_name |-> PyStr(<<"A", "c", "m", "e">>), date |-> PyStr(<<"2", "0", "2", "4", "-", "0", "1", "-", "0", "2">>)]
RevBob == [author |-> PyStr(<<"B", "o", "b">>), quote |-> PyStr(<<"F", "i", "n", "e">>), rating |-> PyInt(9)]
RevBare == [rating |-> PyStr(<<"f", "i", "v", "e">>)]

\* the kinds of file of schemas/reviews
ReviewFileKinds ==
  {[ext |-> "json", doc |-> d] :
     d \in MalformedDocs \cup {PyDict(RevAnn), PyDict(RevBob), PyDict(RevBare),
                               PyList(<<PyDict(RevAnn), PyDict(RevBob)>>)}}
  \cup {[ext |-> "yml", doc |-> PyDict(RevBob)], [ext |-> "txt", doc |-> PyDict(RevAnn)]}

FaqBail == [question |-> PyStr(<<" ", "W", "h", "a", "t", " ", "i", "s", " ", "b", "a", "i", "l", "?", " ">>), answer |-> PyStr(<<"M", "o", "n", "e", "y", " ", "&", " ", "t", "e", "r", "m", "s">>)]
FaqDui == [question |-> PyStr(<<"I", "s", " ", "i", "t", " ", "a", " ", "c", "r", "i", "m", "e", "?">>), answer |-> PyStr(<<"Y", "e", "s">>),
           keywords |-> PyList(<<PyStr(<<"D", "U", "I">>)>>)]
FaqNumber == [question |-> PyInt(5), answer |-> PyStr(<<"x">>)]
FaqListAnswer == [answer |-> PyList(<<PyStr(<<"a">>)>>)]
FaqNoQuestion == [answer |-> PyStr(<<"o", "n", "l", "y">>)]

\* the kinds of file of schemas/faqs
FaqFileKinds ==
  {[ext |-> "json", doc |-> d] :
     d \in MalformedDocs \cup {PyDict(FaqBail), PyDict(FaqDui), PyDict(FaqNumber),
                               PyDict(FaqListAnswer), PyDict(FaqNoQuestion),
                               PyList(<<PyDict(FaqBail), PyDict(FaqNumber)>>)}}
  \cup {[ext |-> "txt", doc |-> PyDict(FaqNumber)]}

\* the text of the lines, one line break between two
Lines(lines) == PyStr(Join(<<"\n">>, lines))

\* the kinds of file of schemas/help-articles
HelpFileKinds ==
  {[ext |-> "md", doc |-> d] :
     d \in {Lines(<<<<"-", "-", "-">>, <<"T", "i", "t", "l", "e", ":", " ", "D", "U", "I", " ", "H", "e", "l", "p">>, <<"k", "e", "y", "w", "o", "r", "d", "s", ":", " ", "d", "m", "v", ",", " ", "t", "r", "i", "a", "l">>, <<"-", "-", "-">>, <<"#", " ", "I", "n", "t", "r", "o">>,
                    <<"-", " ", "p", "o", "i", "n", "t">>, <<>>, <<"a", " ", "<", " ", "b">>>>),
            Lines(<<<<"#", "#", " ", "O", "n", "l", "y", " ", "a", " ", "b", "o", "d", "y">>>>),
            Lines(<<<<"-", "-", "-">>, <<"t", "i", "t", "l", "e", ":">>, <<"-", "-", "-">>>>),
            PyStr(<<>>),
            Undecodable}}
  \cup {[ext |-> "txt", doc |-> Undecodable], [ext |-> "json", doc |-> PyDict(FaqBail)]}

\* the data pages written in one step: the directory each reads, the file
\* each writes, and the kinds of file its directory may hold
DataPages ==
  [generate_services_page |->
     [dir |-> "schemas/services", page |-> "services.html", kinds |-> ServiceFileKinds],
   generate_testimonials_page |->
     [dir |-> "schemas/reviews", page |-> "testimonials.html", kinds |-> ReviewFileKinds],
   generate_faq_page |->
     [dir |-> "schemas/faqs", page |-> "faqs.html", kinds |-> FaqFileKinds],
   generate_help_articles_page |->
     [dir |-> "schemas/help-articles", page |-> "help.html", kinds |-> HelpFileKinds]]

\* the i-th file name of a sorted listing, without its extension
FileStem(i) == <<"p", "a", "g", "e", "-">> \o <<Digits[i + 1]>>

\* a sorted listing of n files of the given kinds
Listing(kinds) == [i \in DOMAIN kinds |-> [name |-> FileStem(i), ext |-> kinds[i].ext, doc |-> kinds[i].doc]]

InitDataPages ==
  /\ \E g \in DOMAIN DataPages :
       /\ call = [fn |-> g]
       /\ \E n \in 0..MaxPageFiles : \E kinds \in [1..n -> DataPages[g].kinds] :
            \E data \in {NoDir, Dir(Listing(kinds))} : \E org \in OrgDirsForPages :
              fs = [present |-> TRUE,
                    dirs |-> [d \in {DataPages[g].dir, "schemas/organization"} |->
                                IF d = DataPages[g].dir THEN data ELSE org],
                    env_repo |-> PyNone]
  /\ ret = Pending
  /\ contact = Idle
  /\ about = Idle
  /\ pages = NoPages
  /\ main = Idle

InitPages == InitContact \/ InitDataPages

NextPages ==
  \/ NextContact
  \/ generate_services_page
  \/ generate_testimonials_page
  \/ generate_faq_page
  \/ generate_help_articles_page

SpecPages == InitPages /\ [][NextPages]_vars

\* a one-step data page generator has returned or raised
DataPageFinished == call.fn \in DOMAIN DataPages /\ ret # Pending

\* the contact page generator has returned or raised
ContactFinished == call.fn = "generate_contact_page" /\ contact.pc \in {"done", "raised"}

\* the directory the called data page generator reads
DataDir == DirAt(fs, DataPages[call.fn].dir)

\* the file the called data page generator writes is there, in full, and shows body
PageShows(name, body) ==
  /\ name \in DOMAIN pages
  /\ pages[name] # TruncatedPage
  /\ pages[name].body = body

\* the input directory is absent, or none of its files yields a mapping
\* record (a .md file, for the help page)
NoInputRecords ==
  \/ ~DataDir.exists
  \/ \A i \in DOMAIN DataDir.files :
       LET f == DataDir.files[i]
       IN IF call.fn = "generate_help_articles_page" THEN f.ext # "md"
          ELSE ~EndsWithDataExt(f) \/ SelectSeq(load_data(f), IsDict) = <<>>

\* load_org_meta() reads an organization file that loads to nothing
OrgFileLoadsToNothing == Raise("IndexError") \in LoadOrgMetaOutcomes(fs)

\* C13: for each data page (contact, services, testimonials, FAQs, help), when
\* its input directory is absent or yields no renderable item, the generator
\* does not raise: it writes its page with the 'nothing found yet' placeholder
\* and returns success.
C13_MissingInputPlaceholder ==
  /\ (DataPageFinished /\ NoInputRecords) =>
       /\ ret = PyBool(TRUE)
       /\ PageShows(DataPages[call.fn].page, PageBody(<<>>))
          \/ PageShows(DataPages[call.fn].page, TocBody(<<>>))
  /\ (ContactFinished /\ LocationRecordsScanned = <<>>) =>
       /\ contact.pc = "done"
       /\ PageShows("contact.html", ContactBody(ContactLocals))

\* what holds of the code: the placeholder page is written and success
\* returned whenever no organization file loads to nothing
MissingInputPlaceholderWhenOrgLoads == ~OrgFileLoadsToNothing => C13_MissingInputPlaceholder

\* a data file that fails to parse, is empty, or whose top level is neither a
\* mapping nor a list holding a mapping (an empty list is a list of mappings)
IsMalformed(f) ==
  \/ f.doc \in {EmptyFile, Unparsable}
  \/ ~IsDict(f.doc) /\ ~IsList(f.doc)
  \/ IsList(f.doc) /\ f.doc.xs # <<>> /\ \A i \in DOMAIN f.doc.xs : ~IsDict(f.doc.xs[i])

\* the listing without its malformed data files
WellFormedOnly(files) == SelectSeq(files, LAMBDA f : ~(EndsWithDataExt(f) /\ IsMalformed(f)))

\* no FAQ record read has a question or an answer that cannot be stripped
NoRecordRaises(files) ==
  \A i \in DOMAIN FaqRecords(files) :
    /\ ~StripRaises(Get(FaqRecords(files)[i].d, "question"))
    /\ ~StripRaises(Get(FaqRecords(files)[i].d, "answer"))

\* the bodies the called generator may render from the listing
BodiesOf(files) ==
  CASE call.fn = "generate_services_page" -> {PageBody(ServiceItems(files))}
    [] call.fn = "generate_testimonials_page" ->
         {PageBody(TestimonialItems(files, order, 1)) : order \in Permutations(DOMAIN files)}
    [] call.fn = "generate_faq_page" -> {TocBody(FaqEntries(FaqRecords(files)))}
    [] call.fn = "generate_help_articles_page" ->
         {TocBody([i \in DOMAIN SelectSeq(files, LAMBDA f : f.ext = "md") |->
                     HelpArticle(SelectSeq(files, LAMBDA f : f.ext = "md")[i])])}

\* C14: a malformed JSON/YAML input file is non-fatal per file: it contributes
\* no rendered item and the generator goes on with the remaining files of the
\* directory, whose records are rendered as if the malformed file were not there.
C14_MalformedFileSkipped ==
  /\ (DataPageFinished /\ call.fn # "generate_help_articles_page" /\ NoRecordRaises(DataDir.files)) =>
       /\ ret = PyBool(TRUE)
       /\ \E body \in BodiesOf(WellFormedOnly(DataDir.files)) :
            PageShows(DataPages[call.fn].page, body)
  /\ ContactFinished =>
       /\ contact.pc = "done"
       /\ contact.items =
            FirstOccurrenceCards(
              RecordsOfFiles(SelectSeq(DirAt(fs, "schemas/locations").files,
                                       LAMBDA f : ~(IsDataFile(f) /\ IsMalformed(f)))), 1)

\* what holds of the code: a malformed file of the page's own directory is
\* skipped; the malformed file that is fatal is one of the organization directory
MalformedDataFileSkippedWhenOrgLoads == ~OrgFileLoadsToNothing => C14_MalformedFileSkipped

\* the listing without the files whose records or bytes make the generator raise
WellTypedOnly(files) ==
  CASE call.fn = "generate_faq_page" ->
         SelectSeq(files, LAMBDA f : ~EndsWithDataExt(f) \/ NoRecordRaises(<<f>>))
    [] call.fn = "generate_help_articles_page" ->
         SelectSeq(files, LAMBDA f : f.doc # Undecodable)
    [] OTHER -> files

\* C15: a failure on a single record or a single file never aborts a page: for
\* every record whose fields are absent or wrongly typed (a FAQ whose question
\* or answer is a number, list or mapping), the generator still completes,
\* writes its page and renders the other records. Stated for the runs in which
\* every organization file loads.
C15_RecordFailureContained ==
  (DataPageFinished /\ ~OrgFileLoadsToNothing) =>
    /\ ret = PyBool(TRUE)
    /\ \E body \in BodiesOf(WellTypedOnly(DataDir.files)) :
         PageShows(DataPages[call.fn].page, body)

\* what holds of the code: the services and testimonials pages are never
\* aborted by a record, and the FAQ and help pages are not when no record or
\* file of theirs makes the generator raise
RecordFailureContainedUnlessRaised ==
  (DataPageFinished /\ ~OrgFileLoadsToNothing /\ WellTypedOnly(DataDir.files) = DataDir.files) =>
    /\ ret = PyBool(TRUE)
    /\ \E body \in BodiesOf(DataDir.files) : PageShows(DataPages[call.fn].page, body)

\* the services page generator has written its page in full and returned True
ServicesRendered ==
  /\ call.fn = "generate_services_page"
  /\ ret = PyBool(TRUE)
  /\ "services.html" \in DOMAIN pages
  /\ pages["services.html"] # TruncatedPage

\* the cards of the written services page
RenderedServiceCards == pages["services.html"].body.cards

\* slug is a non-empty str of lowercase ASCII letters, digits and hyphens
UrlSafe(slug) ==
  /\ IsStr(slug)
  /\ slug.s # <<>>
  /\ \A i \in DOMAIN slug.s : IsLower(slug.s[i]) \/ IsDigit(slug.s[i]) \/ slug.s[i] = "-"

\* C25: every service card's anchor slug is URL-safe and non-empty: it
\* consists only of lowercase ASCII letters, digits and hyphens, whether it
\* comes from the record's own slug field or is derived from the title.
C25_SlugUrlSafe ==
  ServicesRendered =>
    \A i \in DOMAIN RenderedServiceCards : UrlSafe(RenderedServiceCards[i].href)

\* What holds of the code: the slug derived from the title, for a record
\* without a slug of its own, is URL-safe and non-empty, and the card shows it
\* as id and as anchor.
DerivedSlugUrlSafe ==
  ServicesRendered =>
    \A i \in DOMAIN DataDir.files :
      LET f == DataDir.files[i]
          expanded == IF EndsWithDataExt(f) THEN ExpandServices(load_data(f)) ELSE <<>>
      IN \A j \in DOMAIN expanded :
           (IsDict(expanded[j]) /\ ~Truthy(Get(expanded[j].d, "slug"))) =>
             LET card == ServiceCard(expanded[j].d, ServicePath(f))
             IN /\ UrlSafe(card.href)
                /\ card.id = card.href.s
                /\ card \in Range(RenderedServiceCards)

\* the files of the input directory in file-name order (none when it is absent)
FilesInNameOrder == IF DataDir.exists THEN DataDir.files ELSE <<>>

\* the body the called generator renders when it reads the files in file-name order
BodyInNameOrder ==
  IF call.fn = "generate_testimonials_page"
    THEN PageBody(TestimonialItems(FilesInNameOrder, [i \in DOMAIN FilesInNameOrder |-> i], 1))
    ELSE CHOOSE body \in BodiesOf(FilesInNameOrder) : TRUE

\* C26: every page generator processes the files of its input directory in
\* lexicographic file-name order, so the generated page is the same for every
\* order in which the file system lists the same set of files.
C26_FilesInNameOrder ==
  (DataPageFinished /\ ret = PyBool(TRUE)) =>
    PageShows(DataPages[call.fn].page, BodyInNameOrder)

\* What holds of the code: the services, FAQ and help pages are rendered in
\* file-name order; the testimonials page is rendered in some order of the
\* listing.
NameOrderExceptTestimonials ==
  (DataPageFinished /\ ret = PyBool(TRUE)) =>
    IF call.fn = "generate_testimonials_page"
      THEN \E body \in BodiesOf(FilesInNameOrder) : PageShows("testimonials.html", body)
      ELSE PageShows(DataPages[call.fn].page, BodyInNameOrder)

\* ------------------------------------------------------------ entry point runs

\* a page file left by an earlier run
StalePage == WrittenPage(<<"O", "l", "d">>, [placeholder |-> TRUE, cards |-> <<>>])

\* the page files in the working directory when the script starts
StalePages == {NoPages, [f \in {"index.html", "faqs.html"} |-> StalePage]}

MainLocationsDirs ==
  {NoDir, Dir(<<[ext |-> "json", doc |-> PyDict(Loc1)],
               [ext |-> "json", doc |-> PyList(<<PyDict(Loc1), PyDict(Loc2)>>)]>>)}
MainServicesDirs == {NoDir, Dir(Listing(<<[ext |-> "json", doc |-> PyDict(SvcTax)]>>))}
MainReviewsDirs ==
  {NoDir, Dir(Listing(<<[ext |-> "json", doc |-> PyDict(RevAnn)],
                        [ext |-> "json", doc |-> PyDict(RevBob)]>>))}
MainFaqDirs ==
  {Dir(Listing(<<[ext |-> "json", doc |-> PyDict(FaqBail)]>>)),
   Dir(Listing(<<[ext |-> "json", doc |-> PyDict(FaqNumber)]>>))}
MainHelpDirs ==
  {Dir(Listing(<<[ext |-> "md", doc |-> Lines(<<<<"#", " ", "B", "a", "i", "l">>, <<"t", "e", "x", "t">>>>)]>>)),
   Dir(Listing(<<[ext |-> "md", doc |-> Undecodable]>>))}

\* the directories of schemas/ the generators read
MainDirNames ==
  {"schemas/organization", "schemas/locations", "schemas/services", "schemas/reviews",
   "schemas/faqs", "schemas/help-articles"}

\* the script starts in a repository without a schemas directory, or with one
InitMain ==
  /\ call = [fn |-> "__main__"]
  /\ ret = Pending
  /\ \E repo \in {PyNone, PyStr(<<"o", "/", "a", "c", "m", "e", "-", "l", "a", "w">>)} :
       \/ fs = [present |-> TRUE, schemas |-> FALSE, dirs |-> [d \in {} |-> NoDir],
                env_repo |-> repo]
       \/ \E org \in OrgDirsForPages : \E loc \in MainLocationsDirs :
            \E svc \in MainServicesDirs : \E rev \in MainReviewsDirs :
              \E faq \in MainFaqDirs : \E help \in MainHelpDirs :
                fs = [present |-> TRUE, schemas |-> TRUE,
                      dirs |-> [d \in MainDirNames |->
                                  CASE d = "schemas/organization" -> org
                                    [] d = "schemas/locations" -> loc
                                    [] d = "schemas/services" -> svc
                                    [] d = "schemas/reviews" -> rev
                                    [] d = "schemas/faqs" -> faq
                                    [] OTHER -> help],
                      env_repo |-> repo]
  /\ contact = Idle
  /\ about = Idle
  /\ pages \in StalePages
  /\ main = MainLocals

NextMain ==
  \/ MainStart
  \/ MainInvoke
  \/ MainReturn
  \/ MainFinish
  \/ generate_index_page
  \/ NextAbout
  \/ generate_services_page
  \/ generate_testimonials_page
  \/ generate_faq_page
  \/ generate_help_articles_page
  \/ NextContact

SpecMain == InitMain /\ [][NextMain]_vars

\* the file names the loop has logged, in order
LoggedFiles == [i \in DOMAIN main.log |-> main.log[i].filename]

\* C16: in a run of the entry point, the seven page generators are invoked
\* exactly once each in the fixed order index, about, services, testimonials,
\* faqs, help, contact, one finishing before the next starts; an exception
\* raised by one generator never prevents a later generator from running.
C16_EachGeneratorOnceInOrder ==
  main.pc \in {"end", "exit"} => LoggedFiles = html_files

\* no generator is at work
NoGeneratorAtWork ==
  /\ contact.pc \in {"idle", "done", "raised"}
  /\ about.pc \in {"idle", "done", "raised"}
  /\ call.fn \in DOMAIN DataPages \cup {"generate_index_page"} => ret # Pending

\* C16 amended: in a run of the entry point with a schemas directory present,
\* the seven page generators are invoked exactly once each in the fixed order
\* index, about, services, testimonials, faqs, help, contact, one finishing
\* (its page written in full, or its failure or skip logged) before the next
\* starts; an exception raised by one generator is caught and never prevents a
\* later generator from running. Without a schemas directory the run exits
\* before any generator is invoked.
C16_EachGeneratorOnceInOrderWithSchemas ==
  /\ (fs.schemas /\ main.pc # "start") =>
       /\ main.pc \in {"loop", "end"}
       /\ Len(main.log) = main.next - 1
       /\ LoggedFiles = SubSeq(html_files, 1, Len(main.log))
       /\ \A i \in DOMAIN main.log :
            /\ main.log[i].outcome \in {"ok", "skipped", "failed"}
            /\ main.log[i].outcome = "ok" =>
                 /\ html_files[i] \in DOMAIN pages
                 /\ pages[html_files[i]] # TruncatedPage
       /\ \A f \in DOMAIN pages :
            \E i \in 1..main.next : i <= Len(html_files) /\ html_files[i] = f
                                    /\ (i = main.next => main.running)
       /\ main.running => call.fn = page_generators[main.next].generator
       /\ ~main.running => NoGeneratorAtWork
       /\ main.pc = "end" => LoggedFiles = html_files
  /\ ~fs.schemas =>
       /\ main.pc \in {"start", "exit"}
       /\ main.log = <<>>
       /\ ~main.running

\* a run in which the FAQ generator raised and the help and contact pages
\* were written after it
C16_Witness ==
  /\ fs.schemas
  /\ main.pc = "end"
  /\ main.log[5].outcome = "failed"
  /\ main.log[6].outcome = "ok"
  /\ main.log[7].outcome = "ok"
  /\ "faqs.html" \notin DOMAIN pages
  /\ pages["contact.html"] # TruncatedPage


\* the position of the generator of page file f in page_generators
GeneratorOf(f) == CHOOSE i \in DOMAIN page_generators : page_generators[i].filename = f

\* with a schemas directory, once the script is past its start: no page file
\* of an earlier run is left, and a page file is there only if its generator
\* has opened it in this run (it returned a true value and the page is there
\* in full, or it raised while the page was being written)
OnlyPagesOfThisRun ==
  (fs.schemas /\ main.pc # "start") =>
    /\ \A f \in DOMAIN pages :
         /\ f \in Range(html_files)
         /\ pages[f] # StalePage
         /\ GeneratorOf(f) < main.next \/ (GeneratorOf(f) = main.next /\ main.running)
    /\ \A i \in DOMAIN main.log :
         CASE main.log[i].outcome = "ok" ->
                html_files[i] \in DOMAIN pages /\ pages[html_files[i]] # TruncatedPage
           [] main.log[i].outcome = "skipped" -> html_files[i] \notin DOMAIN pages
           [] OTHER ->
                html_files[i] \in DOMAIN pages => pages[html_files[i]] = TruncatedPage
    /\ (fs.env_repo = PyNone /\ main.next > 1) => "index.html" \notin DOMAIN pages

\* a step of the run: the start deletes every page file there is, no later
\* step deletes one, and a page file is created or rewritten only by its
\* generator, while the loop is in that generator's call
PagesChangeByOwnGenerator ==
  /\ (main.pc = "start" /\ fs.schemas) =>
       /\ DOMAIN pages' = {}
       /\ main'.deleted = SelectSeq(html_files, LAMBDA f : f \in DOMAIN pages)
  /\ main.pc # "start" =>
       /\ DOMAIN pages \subseteq DOMAIN pages'
       /\ \A f \in DOMAIN pages' :
            (f \notin DOMAIN pages \/ pages'[f] # pages[f]) =>
              /\ main.pc = "loop"
              /\ main.running
              /\ page_generators[main.next].filename = f

\* C30: in a run of the entry point with a schemas directory present, every
\* one of the seven page files left from an earlier run is deleted before the
\* first generator runs, so when the run ends a page file exists if and only
\* if its generator wrote it during this run; no stale page survives a
\* generator that raised or returned False (index.html does not exist after a
\* run in which the repository-identifier environment variable is unset).
C30_StalePagesDeleted ==
  []OnlyPagesOfThisRun /\ [][PagesChangeByOwnGenerator]_vars

\* a run that found index.html and faqs.html of an earlier run, without the
\* environment variable and with an FAQ record that makes the generator
\* raise: neither file is there at the end
C30_Witness ==
  /\ fs.schemas
  /\ main.pc = "end"
  /\ main.deleted = <<"index.html", "faqs.html">>
  /\ fs.env_repo = PyNone
  /\ main.log[1].outcome = "skipped"
  /\ main.log[5].outcome = "failed"
  /\ DOMAIN pages \cap {"index.html", "faqs.html"} = {}
  /\ "contact.html" \in DOMAIN pages

\* ------------------------------------------------------------ _map_embed_src calls

\* what a location record may hold under latitude, and under lng
LatitudeValues == {PyNone, PyInt(0), PyFloat(33), PyStr(<<"3", "3", ".", "1">>)}
LongitudeValues == {PyNone, PyInt(-117), PyStr(<<"w", "e", "s", "t">>)}

\* the nested geo object: absent, or holding both coordinates
MapGeoValues == {PyNone, PyDict([latitude |-> PyInt(32), longitude |-> PyFloat(-117)])}

EMBED_URL == <<"h", "t", "t", "p", "s", ":", "/", "/", "m", "a", "p", "s", ".", "e", "x", "a", "m", "p", "l", "e", "/", "e", "m", "b", "e", "d">>
GMAPS_URL == <<"h", "t", "t", "p", "s", ":", "/", "/", "g", "o", "o", ".", "g", "l", "/", "m", "a", "p", "s", "/", "x">>

\* what it may hold under map_embed_url and under maps_url
EmbedUrlValues == {PyNone, PyStr(<<" ">>), PyStr(<<" ">> \o EMBED_URL)}
MapsUrlValues == {PyNone, PyStr(GMAPS_URL)}

\* the composed address handed to the synthesizer
MapAddresses == {<<>>, <<"1", " ", "M", "a", "i", "n", " ", "S", "t", ",", " ", "L", "A">>, <<"S", "u", "i", "t", "e", " ", "2">>}

InitMap ==
  /\ \E lat \in LatitudeValues : \E lng \in LongitudeValues : \E geo \in MapGeoValues :
       \E embed \in EmbedUrlValues : \E maps \in MapsUrlValues : \E address \in MapAddresses :
         call = [fn |-> "_map_embed_src",
                 loc |-> [latitude |-> lat, lng |-> lng, geo |-> geo,
                          map_embed_url |-> embed, maps_url |-> maps],
                 address |-> address]
  /\ ret = Pending
  /\ GeneratorsIdle

\* the call of _map_embed_src runs and returns
MapEmbedSrc ==
  /\ call.fn = "_map_embed_src"
  /\ ret = Pending
  /\ ret' = PyStr(_map_embed_src(call.loc, call.address))
  /\ UNCHANGED <<call, generators>>

NextMap == MapEmbedSrc

SpecMap == InitMap /\ [][NextMap]_vars

MapDone == call.fn = "_map_embed_src" /\ ret # Pending

\* the coordinate the record gives for key, as the alias lookup finds it
CoordinateOf(key) == _alias_get(PyDict(call.loc), key)

\* both coordinates are numbers
BothNumeric == IsNum(CoordinateOf("latitude")) /\ IsNum(CoordinateOf("longitude"))

\* the text of the explicit URL the record gives for key, <<>> when it gives none
ExplicitUrl(key) == _first_nonempty(<<_alias_get(PyDict(call.loc), key)>>)

\* C21: the map-link synthesizer never raises and returns the first available
\* source in priority order: the coordinate URL maps?q=<lat>,<lng>&z=15&output=embed
\* only when latitude and longitude are both numeric; else the explicit embed
\* URL, else the explicit maps URL; else the URL-encoded address query when
\* there is an address; else nothing. A record with only one numeric
\* coordinate falls through to the explicit URLs and the address.
C21_MapSourcePriority ==
  MapDone =>
    /\ IsStr(ret)
    /\ BothNumeric =>
         ret.s = <<"h", "t", "t", "p", "s", ":", "/", "/", "w", "w", "w", ".", "g", "o", "o", "g", "l", "e", ".", "c", "o", "m", "/", "m", "a", "p", "s", "?", "q", "=">> \o NumStr(CoordinateOf("latitude")) \o <<",">>
                   \o NumStr(CoordinateOf("longitude")) \o <<"&", "z", "=", "1", "5", "&", "o", "u", "t", "p", "u", "t", "=", "e", "m", "b", "e", "d">>
    /\ (~BothNumeric /\ ExplicitUrl("map_embed_url") # <<>>) =>
         ret.s = ExplicitUrl("map_embed_url")
    /\ (~BothNumeric /\ ExplicitUrl("map_embed_url") = <<>> /\ ExplicitUrl("google_maps_url") # <<>>) =>
         ret.s = ExplicitUrl("google_maps_url")
    /\ (~BothNumeric /\ ExplicitUrl("map_embed_url") = <<>> /\ ExplicitUrl("google_maps_url") = <<>>) =>
         ret.s = IF call.address # <<>>
                   THEN <<"h", "t", "t", "p", "s", ":", "/", "/", "w", "w", "w", ".", "g", "o", "o", "g", "l", "e", ".", "c", "o", "m", "/", "m", "a", "p", "s", "?", "q", "=">> \o quote_plus(call.address) \o <<"&", "o", "u", "t", "p", "u", "t", "=", "e", "m", "b", "e", "d">>
                   ELSE <<>>

\* a record with a latitude and no numeric longitude, an embed URL and a maps
\* URL: the embed URL is returned, trimmed
C21_Witness ==
  /\ MapDone
  /\ call.loc.latitude = PyFloat(33)
  /\ call.loc.lng = PyStr(<<"w", "e", "s", "t">>)
  /\ call.loc.geo = PyNone
  /\ call.loc.maps_url = PyStr(GMAPS_URL)
  /\ ret = PyStr(EMBED_URL)

\* C21 witness of the address query: no coordinates, no explicit URL
C21_WitnessAddressQuery ==
  /\ MapDone
  /\ ~BothNumeric
  /\ ExplicitUrl("map_embed_url") = <<>>
  /\ ExplicitUrl("google_maps_url") = <<>>
  /\ ret = PyStr(<<"h", "t", "t", "p", "s", ":", "/", "/", "w", "w", "w", ".", "g", "o", "o", "g", "l", "e", ".", "c", "o", "m", "/", "m", "a", "p", "s", "?", "q", "=", "1", "+", "M", "a", "i", "n", "+", "S", "t", "%", "2", "C", "+", "L", "A", "&", "o", "u", "t", "p", "u", "t", "=", "e", "m", "b", "e", "d">>)

\* C21 witness of the coordinates: a zero latitude is a latitude
C21_WitnessCoordinates ==
  /\ MapDone
  /\ call.loc.latitude = PyInt(0)
  /\ call.loc.lng = PyInt(-117)
  /\ ret = PyStr(<<"h", "t", "t", "p", "s", ":", "/", "/", "w", "w", "w", ".", "g", "o", "o", "g", "l", "e", ".", "c", "o", "m", "/", "m", "a", "p", "s", "?", "q", "=", "0", ",", "-", "1", "1", "7", "&", "z", "=", "1", "5", "&", "o", "u", "t", "p", "u", "t", "=", "e", "m", "b", "e", "d">>)

====
